---- MODULE Spec2Model ----
(***************************************************************************)
(* A model of libosrmc (src/libosrmc/osrmc.cc), the C binding in front of  *)
(* the OSRM routing engine: error records and the caller's error slot,     *)
(* the base parameter object with its per-coordinate vectors, the service  *)
(* dispatchers and the response holders.                                   *)
(*                                                                         *)
(* Conventions.  A C pointer argument is a sequence of length at most one: *)
(* <<>> is the null pointer, <<x>> points at x.  std::optional<T> is       *)
(* modelled the same way: <<>> is std::nullopt, <<v>> holds v.  Vector     *)
(* indices are 0-based in the code and 1-based here, so element i of a     *)
(* std::vector is v[i + 1].  A double is a record [nan, x]: NaN is a value *)
(* every ordered comparison rejects.                                       *)
(***************************************************************************)
EXTENDS Integers, Sequences, FiniteSets, TLC

(***************************************************************************)
(* Bounds of the model.                                                    *)
(***************************************************************************)
MaxCoords == 2
MaxThreads == 2

(***************************************************************************)
(* Values.                                                                 *)
(***************************************************************************)
\* double
Dbl(x) == [nan |-> FALSE, x |-> x]
NaN == [nan |-> TRUE, x |-> 0]
\* radius >= 0.0 (false for NaN)
DblGE0(d) == ~d.nan /\ d.x >= 0
\* the claim's reading of the radius sentinel: radius < 0.0 (false for NaN)
DblLT0(d) == ~d.nan /\ d.x < 0

\* static_cast<short>(int): the value modulo 2^16, in -32768 .. 32767
Short(v) ==
  LET m == v % 65536
  IN IF m >= 32768 THEN m - 65536 ELSE m

\* osrm::Bearing{static_cast<short>(bearing), static_cast<short>(range)}
Bearing(value, range) == [bearing |-> Short(value), range |-> Short(range)]

\* approach_t enumerators
APPROACH_CURB == 0
APPROACH_UNRESTRICTED == 1
APPROACH_OPPOSITE == 2

\* handles: a null handle, or the handle of the one live object of its type
NullHandle == <<>>
LiveHandle == <<"obj">>

\* std::optional
nullopt == <<>>
Some(v) == <<v>>
IsSet(o) == o # <<>>

(***************************************************************************)
(* Error records and the caller's error slot.                              *)
(* The argument `error` is <<>> (the caller passed no slot) or <<c>>, a    *)
(* slot whose content c is <<>> (NULL) or an error record <<code, msg>>.   *)
(***************************************************************************)
NoSlot == <<>>
EmptySlot == << <<>> >>
StaleSlot == << <<"Stale", "left by an earlier call">> >>
ErrorArgs == {NoSlot, EmptySlot, StaleSlot}

osrmc_error(code, message) == <<code, message>>

\* osrmc_set_error: writes a new record through the slot, if there is one
osrmc_set_error(error, code, message) ==
  IF error # <<>> THEN << osrmc_error(code, message) >> ELSE error

\* osrmc_error_from_exception
osrmc_error_from_exception_uncoded(what, error) == osrmc_set_error(error, "Error", what)
osrmc_error_from_exception(what, error) == osrmc_set_error(error, "Exception", what)

\* osrmc_error_code / osrmc_error_message of the record in a slot
HasRecord(error) == error # NoSlot /\ error[1] # <<>>
osrmc_error_code(error) == IF HasRecord(error) THEN error[1][1] ELSE "<null>"
osrmc_error_message(error) == IF HasRecord(error) THEN error[1][2] ELSE "<null>"

(***************************************************************************)
(* The engine's hint codec (osrm::engine::Hint), outside the binding:      *)
(* FromBase64 decodes a well-formed token and throws on a malformed one.   *)
(***************************************************************************)
ValidHints == {"aGludA=="}
HintInputs == {<<>>, <<"aGludA==">>, <<"!bad!">>}
Hint_Throws(base64) == base64 \notin ValidHints
Hint_FromBase64(base64) == [decoded |-> base64]
Hint_ToBase64(hint) == hint.decoded
HintWhat == "invalid base64 hint"

(***************************************************************************)
(* osrm::engine::api::BaseParameters: the per-coordinate vectors.          *)
(***************************************************************************)
BaseParameters ==
  [coordinates |-> <<>>, radiuses |-> <<>>, bearings |-> <<>>,
   approaches |-> <<>>, hints |-> <<>>]

\* osrm::RouteParameters as osrmc_route_params_construct leaves it
RouteParameters ==
  [coordinates |-> <<>>, radiuses |-> <<>>, bearings |-> <<>>,
   approaches |-> <<>>, hints |-> <<>>, waypoints |-> <<>>,
   snapping |-> "Default", annotations |-> FALSE, annotations_type |-> 0,
   alternatives |-> FALSE, number_of_alternatives |-> 0]

\* osrm::MatchParameters and osrm::TripParameters extend RouteParameters;
\* as osrmc_match_params_construct and osrmc_trip_params_construct leave them
MatchParameters ==
  [coordinates |-> <<>>, radiuses |-> <<>>, bearings |-> <<>>,
   approaches |-> <<>>, hints |-> <<>>, waypoints |-> <<>>,
   snapping |-> "Default", annotations |-> FALSE, annotations_type |-> 0,
   alternatives |-> FALSE, number_of_alternatives |-> 0, gaps |-> 0]
TripParameters ==
  [coordinates |-> <<>>, radiuses |-> <<>>, bearings |-> <<>>,
   approaches |-> <<>>, hints |-> <<>>, waypoints |-> <<>>,
   snapping |-> "Default", annotations |-> FALSE, annotations_type |-> 0,
   alternatives |-> FALSE, number_of_alternatives |-> 0, source |-> 0, destination |-> 0]

\* std::vector<std::optional<T>>::resize(n) for n >= size: pads with nullopt
Resize(v, n) == [i \in 1..n |-> IF i <= Len(v) THEN v[i] ELSE nullopt]

\* if (v.size() < coordinates.size()) v.resize(coordinates.size());
ExtendNoPad(v, n) == v
Extend(v, n) == IF Len(v) < n THEN Resize(v, n) ELSE v

\* the result of a void entry point on a parameter handle; `engine` says
\* whether the call ran engine code that can throw
Ret(p, error, failed) ==
  [params |-> p, error |-> error, failed |-> failed, engine |-> FALSE]
RetEngine(p, error, failed) ==
  [params |-> p, error |-> error, failed |-> failed, engine |-> TRUE]

osrmc_params_add_coordinate_clearing(params, p, longitude, latitude, error) ==
  Ret([p EXCEPT !.coordinates = Append(@, <<longitude, latitude>>)],
      IF error # <<>> THEN << <<>> >> ELSE error, FALSE)
osrmc_params_add_coordinate(params, p, longitude, latitude, error) ==
  IF params = NullHandle
  THEN Ret(p, osrmc_set_error(error, "InvalidArgument", "Params must not be null"), TRUE)
  ELSE Ret([p EXCEPT !.coordinates = Append(@, <<longitude, latitude>>)], error, FALSE)

osrmc_params_add_coordinate_with_unpaired(params, p, longitude, latitude, radius, bearing, range, error) ==
  Ret([p EXCEPT !.radiuses = Append(@, Some(radius)),
                !.bearings = Append(@, Some(Bearing(bearing, range)))],
      error, FALSE)
osrmc_params_add_coordinate_with_translating(params, p, longitude, latitude, radius, bearing, range, error) ==
  Ret([p EXCEPT !.coordinates = Append(@, <<longitude, latitude>>),
                !.radiuses = Append(@, IF DblGE0(radius) THEN Some(radius) ELSE nullopt),
                !.bearings = Append(@, IF bearing < 0 \/ range < 0 THEN nullopt
                                       ELSE Some(Bearing(bearing, range)))],
      error, FALSE)
osrmc_params_add_coordinate_with(params, p, longitude, latitude, radius, bearing, range, error) ==
  IF params = NullHandle
  THEN Ret(p, osrmc_set_error(error, "InvalidArgument", "Params must not be null"), TRUE)
  ELSE Ret([p EXCEPT !.coordinates = Append(@, <<longitude, latitude>>),
                     !.radiuses = Append(@, Some(radius)),
                     !.bearings = Append(@, Some(Bearing(bearing, range)))],
           error, FALSE)

osrmc_params_set_radius_truncating(params, p, coordinate_index, radius, error) ==
  IF coordinate_index >= Len(p.coordinates)
  THEN Ret(p, osrmc_set_error(error, "InvalidCoordinateIndex", "Radius index out of bounds"), TRUE)
  ELSE Ret([p EXCEPT !.radiuses = [Resize(@, coordinate_index + 1) EXCEPT ![coordinate_index + 1] = Some(radius)]],
           error, FALSE)
osrmc_params_set_radius(params, p, coordinate_index, radius, error) ==
  IF params = NullHandle
  THEN Ret(p, osrmc_set_error(error, "InvalidArgument", "Params must not be null"), TRUE)
  ELSE IF coordinate_index >= Len(p.coordinates)
  THEN Ret(p, osrmc_set_error(error, "InvalidCoordinateIndex", "Radius index out of bounds"), TRUE)
  ELSE LET radiuses == Extend(p.radiuses, Len(p.coordinates))
           value == IF DblGE0(radius) THEN Some(radius) ELSE nullopt
       IN Ret([p EXCEPT !.radiuses = [radiuses EXCEPT ![coordinate_index + 1] = value]],
              error, FALSE)

osrmc_params_set_bearing_unchecked(params, p, coordinate_index, value, range, error) ==
  Ret([p EXCEPT !.bearings = Resize(@, coordinate_index + 1)], error, FALSE)
osrmc_params_set_bearing(params, p, coordinate_index, value, range, error) ==
  IF params = NullHandle
  THEN Ret(p, osrmc_set_error(error, "InvalidArgument", "Params must not be null"), TRUE)
  ELSE IF coordinate_index >= Len(p.coordinates)
  THEN Ret(p, osrmc_set_error(error, "InvalidCoordinateIndex", "Bearing index out of bounds"), TRUE)
  ELSE LET bearings == Extend(p.bearings, Len(p.coordinates))
           stored == IF value < 0 \/ range < 0 THEN nullopt ELSE Some(Bearing(value, range))
       IN Ret([p EXCEPT !.bearings = [bearings EXCEPT ![coordinate_index + 1] = stored]],
              error, FALSE)

osrmc_params_set_approach(params, p, coordinate_index, approach, error) ==
  IF params = NullHandle
  THEN Ret(p, osrmc_set_error(error, "InvalidArgument", "Params must not be null"), TRUE)
  ELSE IF coordinate_index >= Len(p.coordinates)
  THEN Ret(p, osrmc_set_error(error, "InvalidCoordinateIndex", "Approach index out of bounds"), TRUE)
  ELSE LET approaches == Extend(p.approaches, Len(p.coordinates))
           approach_value ==
             CASE approach = APPROACH_CURB -> Some("CURB")
               [] approach = APPROACH_UNRESTRICTED -> Some("UNRESTRICTED")
               [] approach = APPROACH_OPPOSITE -> Some("OPPOSITE")
               [] OTHER -> nullopt
       IN Ret([p EXCEPT !.approaches = [approaches EXCEPT ![coordinate_index + 1] = approach_value]],
              error, FALSE)

\* The hint vector is resized before Hint::FromBase64 runs, so a throwing
\* decode leaves the resized vector behind.
osrmc_params_set_hint(params, p, coordinate_index, hint_base64, error) ==
  IF params = NullHandle
  THEN Ret(p, osrmc_set_error(error, "InvalidArgument", "Params must not be null"), TRUE)
  ELSE IF coordinate_index >= Len(p.coordinates)
  THEN Ret(p, osrmc_set_error(error, "InvalidCoordinateIndex", "Hint index out of bounds"), TRUE)
  ELSE LET hints == Extend(p.hints, Len(p.coordinates))
       IN IF hint_base64 # <<>>
          THEN IF Hint_Throws(hint_base64[1])
               THEN RetEngine([p EXCEPT !.hints = hints],
                              osrmc_error_from_exception(HintWhat, error), TRUE)
               ELSE RetEngine([p EXCEPT !.hints =
                                  [hints EXCEPT ![coordinate_index + 1] = Some(Hint_FromBase64(hint_base64[1]))]],
                              error, FALSE)
          ELSE Ret([p EXCEPT !.hints = [hints EXCEPT ![coordinate_index + 1] = nullopt]],
                   error, FALSE)

(***************************************************************************)
(* Setters of enumerated options.  An enumerator argument is the integer   *)
(* the caller passes; a static_cast to the engine's enum keeps the integer. *)
(***************************************************************************)
SNAPPING_DEFAULT == 0
SNAPPING_ANY == 1
ANNOTATIONS_NONE == 0

osrmc_params_set_snapping_unchecked(params, p, snapping, error) ==
  Ret([p EXCEPT !.snapping = IF snapping = SNAPPING_DEFAULT THEN "Default" ELSE "Any"], error, FALSE)
osrmc_params_set_snapping(params, p, snapping, error) ==
  IF params = NullHandle
  THEN Ret(p, osrmc_set_error(error, "InvalidArgument", "Params must not be null"), TRUE)
  ELSE CASE snapping = SNAPPING_DEFAULT -> Ret([p EXCEPT !.snapping = "Default"], error, FALSE)
         [] snapping = SNAPPING_ANY -> Ret([p EXCEPT !.snapping = "Any"], error, FALSE)
         [] OTHER -> Ret(p, osrmc_set_error(error, "InvalidSnapping", "Unknown snapping type"), TRUE)

osrmc_route_params_set_annotations_flagless(params, p, annotations, error) ==
  Ret([p EXCEPT !.annotations_type = annotations], error, FALSE)
osrmc_route_params_set_annotations(params, p, annotations, error) ==
  IF params = NullHandle
  THEN Ret(p, osrmc_set_error(error, "InvalidArgument", "Params must not be null"), TRUE)
  ELSE Ret([p EXCEPT !.annotations_type = annotations,
                     !.annotations = (annotations # ANNOTATIONS_NONE)], error, FALSE)

osrmc_match_params_set_annotations(params, p, annotations, error) ==
  IF params = NullHandle
  THEN Ret(p, osrmc_set_error(error, "InvalidArgument", "Params must not be null"), TRUE)
  ELSE Ret([p EXCEPT !.annotations_type = annotations,
                     !.annotations = (annotations # ANNOTATIONS_NONE)], error, FALSE)

osrmc_trip_params_set_annotations(params, p, annotations, error) ==
  IF params = NullHandle
  THEN Ret(p, osrmc_set_error(error, "InvalidArgument", "Params must not be null"), TRUE)
  ELSE Ret([p EXCEPT !.annotations_type = annotations,
                     !.annotations = (annotations # ANNOTATIONS_NONE)], error, FALSE)

\* params_typed->alternatives = on != 0;
osrmc_route_params_set_alternatives(params, p, on, error) ==
  IF params = NullHandle
  THEN Ret(p, osrmc_set_error(error, "InvalidArgument", "Params must not be null"), TRUE)
  ELSE Ret([p EXCEPT !.alternatives = (on # 0)], error, FALSE)

osrmc_match_params_set_alternatives(params, p, on, error) ==
  IF params = NullHandle
  THEN Ret(p, osrmc_set_error(error, "InvalidArgument", "Params must not be null"), TRUE)
  ELSE Ret([p EXCEPT !.alternatives = (on # 0)], error, FALSE)

osrmc_trip_params_set_alternatives(params, p, on, error) ==
  IF params = NullHandle
  THEN Ret(p, osrmc_set_error(error, "InvalidArgument", "Params must not be null"), TRUE)
  ELSE Ret([p EXCEPT !.alternatives = (on # 0)], error, FALSE)

\* params_typed->number_of_alternatives = count;
\* params_typed->alternatives = count > 0;
osrmc_route_params_set_number_of_alternatives_only(params, p, count, error) ==
  Ret([p EXCEPT !.number_of_alternatives = count], error, FALSE)
osrmc_route_params_set_number_of_alternatives(params, p, count, error) ==
  IF params = NullHandle
  THEN Ret(p, osrmc_set_error(error, "InvalidArgument", "Params must not be null"), TRUE)
  ELSE Ret([p EXCEPT !.number_of_alternatives = count, !.alternatives = (count > 0)],
           error, FALSE)

osrmc_match_params_set_number_of_alternatives(params, p, count, error) ==
  IF params = NullHandle
  THEN Ret(p, osrmc_set_error(error, "InvalidArgument", "Params must not be null"), TRUE)
  ELSE Ret([p EXCEPT !.number_of_alternatives = count, !.alternatives = (count > 0)],
           error, FALSE)

osrmc_trip_params_set_number_of_alternatives(params, p, count, error) ==
  IF params = NullHandle
  THEN Ret(p, osrmc_set_error(error, "InvalidArgument", "Params must not be null"), TRUE)
  ELSE Ret([p EXCEPT !.number_of_alternatives = count, !.alternatives = (count > 0)],
           error, FALSE)

osrmc_match_params_set_gaps(params, p, gaps, error) ==
  IF params = NullHandle
  THEN Ret(p, osrmc_set_error(error, "InvalidArgument", "Params must not be null"), TRUE)
  ELSE Ret([p EXCEPT !.gaps = gaps], error, FALSE)

osrmc_trip_params_set_source(params, p, source, error) ==
  IF params = NullHandle
  THEN Ret(p, osrmc_set_error(error, "InvalidArgument", "Params must not be null"), TRUE)
  ELSE Ret([p EXCEPT !.source = source], error, FALSE)

osrmc_trip_params_set_destination(params, p, destination, error) ==
  IF params = NullHandle
  THEN Ret(p, osrmc_set_error(error, "InvalidArgument", "Params must not be null"), TRUE)
  ELSE Ret([p EXCEPT !.destination = destination], error, FALSE)

(***************************************************************************)
(* Table parameters: the fallback speed and the scale factor.              *)
(***************************************************************************)
\* speed <= 0 (false for NaN)
DblLE0(d) == ~d.nan /\ d.x <= 0

\* osrm::TableParameters as osrmc_table_params_construct leaves it; the
\* engine's default fallback speed is the largest double, written here as a
\* value above every speed a caller of the model passes
DefaultFallbackSpeed == Dbl(1000000)
DefaultScaleFactor == Dbl(1)
TableParameters ==
  [coordinates |-> <<>>, radiuses |-> <<>>, bearings |-> <<>>,
   approaches |-> <<>>, hints |-> <<>>,
   fallback_speed |-> DefaultFallbackSpeed, scale_factor |-> DefaultScaleFactor]

osrmc_table_params_set_fallback_speed(params, p, speed, error) ==
  IF params = NullHandle
  THEN Ret(p, osrmc_set_error(error, "InvalidArgument", "Params must not be null"), TRUE)
  ELSE IF DblLE0(speed)
  THEN Ret(p, osrmc_set_error(error, "InvalidArgument", "Fallback speed must be positive"), TRUE)
  ELSE Ret([p EXCEPT !.fallback_speed = speed], error, FALSE)

osrmc_table_params_set_scale_factor(params, p, scale_factor, error) ==
  IF params = NullHandle
  THEN Ret(p, osrmc_set_error(error, "InvalidArgument", "Params must not be null"), TRUE)
  ELSE IF DblLE0(scale_factor)
  THEN Ret(p, osrmc_set_error(error, "InvalidArgument", "Scale factor must be positive"), TRUE)
  ELSE Ret([p EXCEPT !.scale_factor = scale_factor], error, FALSE)

(***************************************************************************)
(* Getters.  An output the getter does not write is <<>>; a written one is *)
(* <<v>>.  `out` says whether the caller passed every output pointer.      *)
(***************************************************************************)
Got(error, failed, is_set, value) ==
  [error |-> error, failed |-> failed, out_is_set |-> is_set, out_value |-> value]

osrmc_params_get_coordinate_count(params, p, out, error) ==
  IF ~out
  THEN Got(osrmc_set_error(error, "InvalidArgument", "Output pointer must not be null"), TRUE, <<>>, <<>>)
  ELSE IF params = NullHandle
  THEN Got(osrmc_set_error(error, "InvalidArgument", "Params must not be null"), TRUE, <<>>, <<>>)
  ELSE Got(error, FALSE, <<>>, <<Len(p.coordinates)>>)

osrmc_params_get_radius(params, p, coordinate_index, out, error) ==
  IF ~out
  THEN Got(osrmc_set_error(error, "InvalidArgument", "Output pointers must not be null"), TRUE, <<>>, <<>>)
  ELSE IF params = NullHandle
  THEN Got(osrmc_set_error(error, "InvalidArgument", "Params must not be null"), TRUE, <<>>, <<>>)
  ELSE IF coordinate_index >= Len(p.coordinates)
  THEN Got(osrmc_set_error(error, "InvalidCoordinateIndex", "Coordinate index out of bounds"), TRUE, <<>>, <<>>)
  ELSE IF coordinate_index >= Len(p.radiuses) \/ ~IsSet(p.radiuses[coordinate_index + 1])
  THEN Got(error, FALSE, <<0>>, <<>>)
  ELSE Got(error, FALSE, <<1>>, <<p.radiuses[coordinate_index + 1][1]>>)

osrmc_params_get_bearing(params, p, coordinate_index, out, error) ==
  IF ~out
  THEN Got(osrmc_set_error(error, "InvalidArgument", "Output pointers must not be null"), TRUE, <<>>, <<>>)
  ELSE IF params = NullHandle
  THEN Got(osrmc_set_error(error, "InvalidArgument", "Params must not be null"), TRUE, <<>>, <<>>)
  ELSE IF coordinate_index >= Len(p.coordinates)
  THEN Got(osrmc_set_error(error, "InvalidCoordinateIndex", "Coordinate index out of bounds"), TRUE, <<>>, <<>>)
  ELSE IF coordinate_index >= Len(p.bearings) \/ ~IsSet(p.bearings[coordinate_index + 1])
  THEN Got(error, FALSE, <<0>>, <<>>)
  ELSE Got(error, FALSE, <<1>>,
           << <<p.bearings[coordinate_index + 1][1].bearing, p.bearings[coordinate_index + 1][1].range>> >>)

osrmc_params_get_approach(params, p, coordinate_index, out, error) ==
  IF ~out
  THEN Got(osrmc_set_error(error, "InvalidArgument", "Output pointers must not be null"), TRUE, <<>>, <<>>)
  ELSE IF params = NullHandle
  THEN Got(osrmc_set_error(error, "InvalidArgument", "Params must not be null"), TRUE, <<>>, <<>>)
  ELSE IF coordinate_index >= Len(p.coordinates)
  THEN Got(osrmc_set_error(error, "InvalidCoordinateIndex", "Coordinate index out of bounds"), TRUE, <<>>, <<>>)
  ELSE IF coordinate_index >= Len(p.approaches) \/ ~IsSet(p.approaches[coordinate_index + 1])
  THEN Got(error, FALSE, <<0>>, <<>>)
  ELSE Got(error, FALSE, <<1>>,
           LET a == p.approaches[coordinate_index + 1][1]
           IN CASE a = "CURB" -> <<APPROACH_CURB>>
                [] a = "UNRESTRICTED" -> <<APPROACH_UNRESTRICTED>>
                [] a = "OPPOSITE" -> <<APPROACH_OPPOSITE>>)

\* out_value is <<"NULL">> when the getter stores a null pointer
osrmc_params_get_hint(params, p, coordinate_index, out, error) ==
  IF ~out
  THEN Got(osrmc_set_error(error, "InvalidArgument", "Output pointer must not be null"), TRUE, <<>>, <<>>)
  ELSE IF params = NullHandle
  THEN Got(osrmc_set_error(error, "InvalidArgument", "Params must not be null"), TRUE, <<>>, <<>>)
  ELSE IF coordinate_index >= Len(p.coordinates)
  THEN Got(osrmc_set_error(error, "InvalidCoordinateIndex", "Coordinate index out of bounds"), TRUE, <<>>, <<>>)
  ELSE IF coordinate_index >= Len(p.hints) \/ ~IsSet(p.hints[coordinate_index + 1])
  THEN Got(error, FALSE, <<>>, <<"NULL">>)
  ELSE Got(error, FALSE, <<>>, <<Hint_ToBase64(p.hints[coordinate_index + 1][1])>>)


(***************************************************************************)
(* The engine's result variant (osrm::engine::api::ResultT): a JSON        *)
(* object, a std::string or a flatbuffers::FlatBufferBuilder.  The active  *)
(* alternative is `alt`; the fields of the other alternatives are idle.    *)
(***************************************************************************)
\* osrm::json::Value under one key: a String, a Number, or a key not present
JString(s) == [t |-> "String", value |-> s]
JNumber == [t |-> "Number", value |-> "0"]
JMissing == [t |-> "missing", value |-> ""]

\* json.values[key]: operator[] default-constructs the value of an absent
\* key, and the first alternative of osrm::json::Value is an empty String
JsonAt(v) == IF v.t = "missing" THEN JString("") ELSE v
\* std::get<osrm::json::String>(v) throws std::bad_variant_access otherwise
GetStringThrows(v) == JsonAt(v).t # "String"
\* e.what() of std::bad_variant_access is implementation-defined: the text
\* of libstdc++ for a wrong index, and that of libc++
BadVariantWhat == "std::get: wrong index for variant"
BadVariantWhats == {BadVariantWhat, "bad_variant_access"}

\* a builder: the buffer it owns ("none" once released), its reserved size
\* and the offset of the finished data in it
FlatBufferBuilder == [buffer |-> "none", size |-> 0, offset |-> 0]
Builder(size, offset) == [buffer |-> "owned", size |-> size, offset |-> offset]
EmptyObject == [code |-> JMissing, message |-> JMissing]

ResultFlatbuffer(fb) == [alt |-> "FlatBufferBuilder", fb |-> fb, json |-> EmptyObject, str |-> ""]
ResultJson(code, message) ==
  [alt |-> "Object", fb |-> FlatBufferBuilder, json |-> [code |-> code, message |-> message], str |-> ""]
ResultString(s) == [alt |-> "string", fb |-> FlatBufferBuilder, json |-> EmptyObject, str |-> s]

(***************************************************************************)
(* What one engine call can do: throw a std::exception with text `what`,   *)
(* or return a status and leave `result` in the caller's variant.  On Ok   *)
(* the engine leaves the alternative the service produces; on Error it     *)
(* leaves an error document, or the variant as the caller initialised it.  *)
(***************************************************************************)
\* `what` is the text e.what() gives for the exception the call ends in: the
\* engine's when it throws, that of std::bad_variant_access when the engine
\* returns and a std::get of the dispatcher throws
Returns(status, result) ==
  [throws |-> FALSE, what |-> BadVariantWhat, status |-> status, result |-> result]
\* the same outcome under a standard library with another text
InBuild(outcome, what) == [outcome EXCEPT !.what = what]
Throws(what) ==
  [throws |-> TRUE, what |-> what, status |-> "Error", result |-> ResultString("")]
EngineWhat == "engine failure"

ErrorDocuments ==
  { ResultJson(JString("NoRoute"), JString("Impossible route")),
    ResultJson(JString(""), JString("no code")),
    ResultJson(JMissing, JString("no code field")),
    ResultJson(JNumber, JString("code is a number")) }

ServiceOutcomes ==
  { Returns("Ok", ResultFlatbuffer(Builder(8, 0))),
    Returns("Ok", ResultFlatbuffer(Builder(8, 4))),
    Returns("Error", ResultFlatbuffer(FlatBufferBuilder)),
    Throws(EngineWhat) }
  \cup { Returns("Error", d) : d \in ErrorDocuments }

\* with a null handle the dispatcher returns before it calls the engine
NotInvoked == Returns("NotInvoked", ResultString(""))
OutcomesFor(osrm, params, outcomes) ==
  IF osrm = <<>> \/ params = <<>> THEN {NotInvoked} ELSE outcomes

TileOutcomes ==
  { Returns("Ok", ResultString("tile")),
    Returns("Error", ResultString("")),
    Throws(EngineWhat) }
  \cup { InBuild(Returns("Error", d), what) : d \in ErrorDocuments, what \in BadVariantWhats }

(***************************************************************************)
(* Dispatch.  `ret` is the returned handle with the holder behind it:      *)
(* <<>> is nullptr.  `engine` says whether the engine was invoked.         *)
(***************************************************************************)
Dispatched(ret, error, engine) ==
  [ret |-> ret, error |-> error, failed |-> (ret = <<>>), engine |-> engine]

\* the code and the message of an error document, as the dispatchers read it
DocumentCodeAsIs(json) == JsonAt(json.code).value
DocumentCode(json) ==
  IF JsonAt(json.code).value = "" THEN "Unknown" ELSE JsonAt(json.code).value
DocumentMessage(json) == JsonAt(json.message).value
DocumentThrows(json) == GetStringThrows(json.code) \/ GetStringThrows(json.message)

osrmc_service_helper_lenient(osrm, params, outcome, error_name, error) ==
  Dispatched(<< [result |-> outcome.result] >>, error, TRUE)
osrmc_service_helper(osrm, params, outcome, error_name, error) ==
  IF osrm = NullHandle
  THEN Dispatched(<<>>, osrmc_set_error(error, "InvalidArgument", "OSRM instance must not be null"), FALSE)
  ELSE IF params = NullHandle
  THEN Dispatched(<<>>, osrmc_set_error(error, "InvalidArgument", "Params must not be null"), FALSE)
  ELSE IF outcome.throws
  THEN Dispatched(<<>>, osrmc_error_from_exception(outcome.what, error), TRUE)
  ELSE IF outcome.status = "Ok"
  THEN Dispatched(<< [result |-> outcome.result] >>, error, TRUE)
  ELSE IF error = <<>>
  THEN Dispatched(<<>>, error, TRUE)
  ELSE IF outcome.result.alt = "Object"
  THEN IF DocumentThrows(outcome.result.json)
       THEN Dispatched(<<>>, osrmc_set_error(error, error_name, "Request failed"), TRUE)
       ELSE Dispatched(<<>>, osrmc_set_error(error, DocumentCode(outcome.result.json),
                                             DocumentMessage(outcome.result.json)), TRUE)
  ELSE Dispatched(<<>>, osrmc_set_error(error, error_name, "Request failed"), TRUE)

osrmc_nearest(osrm, params, outcome, error) ==
  osrmc_service_helper(osrm, params, outcome, "NearestError", error)
osrmc_route(osrm, params, outcome, error) ==
  osrmc_service_helper(osrm, params, outcome, "RouteError", error)
osrmc_table(osrm, params, outcome, error) ==
  osrmc_service_helper(osrm, params, outcome, "TableError", error)
osrmc_match(osrm, params, outcome, error) ==
  osrmc_service_helper(osrm, params, outcome, "MatchError", error)
osrmc_trip(osrm, params, outcome, error) ==
  osrmc_service_helper(osrm, params, outcome, "TripError", error)

\* the tile holder is the std::string itself
osrmc_tile_unnamed(osrm, params, outcome, error) ==
  IF outcome.status = "Ok" /\ ~outcome.throws /\ osrm # NullHandle /\ params # NullHandle
  THEN Dispatched(<< outcome.result.str >>, error, TRUE)
  ELSE Dispatched(<<>>, osrmc_set_error(error, "Error", "Request failed"), TRUE)
osrmc_tile(osrm, params, outcome, error) ==
  IF osrm = NullHandle
  THEN Dispatched(<<>>, osrmc_set_error(error, "InvalidArgument", "OSRM instance must not be null"), FALSE)
  ELSE IF params = NullHandle
  THEN Dispatched(<<>>, osrmc_set_error(error, "InvalidArgument", "Params must not be null"), FALSE)
  ELSE IF outcome.throws
  THEN Dispatched(<<>>, osrmc_error_from_exception(outcome.what, error), TRUE)
  ELSE IF outcome.status = "Ok"
  THEN IF outcome.result.alt = "string"
       THEN Dispatched(<< outcome.result.str >>, error, TRUE)
       ELSE Dispatched(<<>>, osrmc_error_from_exception(outcome.what, error), TRUE)
  ELSE IF outcome.result.alt = "Object"
  THEN IF error = <<>>
       THEN Dispatched(<<>>, error, TRUE)
       ELSE IF DocumentThrows(outcome.result.json)
       THEN Dispatched(<<>>, osrmc_error_from_exception(outcome.what, error), TRUE)
       ELSE Dispatched(<<>>, osrmc_set_error(error, DocumentCode(outcome.result.json),
                                             DocumentMessage(outcome.result.json)), TRUE)
  ELSE Dispatched(<<>>, osrmc_set_error(error, "TileError", "Failed to generate tile"), TRUE)

(***************************************************************************)
(* Responses.  A holder (struct osrmc_response) is [result |-> ResultT].   *)
(***************************************************************************)
\* the three outputs of a transfer: <<>> is an output the call did not write.
\* `allocated` and `freed` are the buffers the call got from std::malloc and
\* gave to std::free.
Transferred(resp, error, failed, data, size, deleter) ==
  [response |-> resp, error |-> error, failed |-> failed, engine |-> FALSE,
   data |-> data, size |-> size, deleter |-> deleter, allocated |-> {}, freed |-> {}]

\* the output pointers a caller can pass; `outs` is the set of those passed
OutputPointers == {"data", "size", "deleter"}
\* what the callers of the model pass: none, two of the three, all three
OutputArgs == {{}, {"data", "size"}, OutputPointers}
\* if (data) *data = nullptr; if (size) *size = 0; if (deleter) *deleter = nullptr;
Nulled(outs, name, value) == IF name \in outs THEN <<value>> ELSE <<>>

\* ReleaseRaw hands the buffer out and leaves the builder without one.
\* `malloc_fails` is the outcome of the std::malloc of the copy.
osrmc_transfer_flatbuffer_helper_converting(resp, outs, malloc_fails, error) ==
  Transferred([result |-> ResultJson(JMissing, JMissing)], error, FALSE,
              <<"copy">>, <<resp.result.fb.size>>, <<"osrmc_free_deleter">>)
osrmc_transfer_flatbuffer_helper(resp, outs, malloc_fails, error) ==
  IF resp.result.alt # "FlatBufferBuilder"
  THEN Transferred(resp, osrmc_set_error(error, "InvalidFormat", "Response is not in FlatBuffer format"),
                   TRUE, Nulled(outs, "data", "NULL"), Nulled(outs, "size", 0),
                   Nulled(outs, "deleter", "NULL"))
  ELSE LET builder == resp.result.fb
           raw == IF builder.buffer = "owned" THEN "raw buffer" ELSE "NULL"
       IN IF builder.offset = 0
          THEN Transferred([result |-> ResultJson(JMissing, JMissing)], error, FALSE,
                           <<raw>>, <<builder.size>>, <<"osrmc_free_deleter">>)
          ELSE IF malloc_fails
          THEN [Transferred([result |-> ResultFlatbuffer(FlatBufferBuilder)],
                            osrmc_set_error(error, "MemoryError",
                                            "Failed to allocate memory for FlatBuffer data"),
                            TRUE, Nulled(outs, "data", "NULL"), Nulled(outs, "size", 0),
                            Nulled(outs, "deleter", "NULL"))
                  EXCEPT !.freed = {raw}]
          ELSE [Transferred([result |-> ResultJson(JMissing, JMissing)], error, FALSE,
                            <<"copy">>, <<builder.size - builder.offset>>, <<"osrmc_free_deleter">>)
                  EXCEPT !.allocated = {"copy"}, !.freed = {raw}]

\* osrmc_*_response_transfer_flatbuffer; `object` is what the response
\* handle owns
osrmc_response_transfer_flatbuffer_keeping(response, object, outs, malloc_fails, error) ==
  IF response = NullHandle \/ outs # OutputPointers
  THEN Transferred(object, osrmc_set_error(error, "InvalidArgument", "Response must not be null"),
                   TRUE, <<>>, <<>>, <<>>)
  ELSE [osrmc_transfer_flatbuffer_helper(object[1], outs, malloc_fails, error)
          EXCEPT !.response = object]
osrmc_response_transfer_flatbuffer(response, object, outs, malloc_fails, error) ==
  IF response = NullHandle
  THEN Transferred(object, osrmc_set_error(error, "InvalidArgument", "Response must not be null"),
                   TRUE, Nulled(outs, "data", "NULL"), Nulled(outs, "size", 0),
                   Nulled(outs, "deleter", "NULL"))
  ELSE IF outs # OutputPointers
  THEN Transferred(object, osrmc_set_error(error, "InvalidArgument", "Output pointers must not be null"),
                   TRUE, <<>>, <<>>, <<>>)
  ELSE LET t == osrmc_transfer_flatbuffer_helper(object[1], outs, malloc_fails, error)
       IN [t EXCEPT !.response = <<@>>]

(***************************************************************************)
(* Config and engine.  An object a handle owns is <<>> (no object) or      *)
(* <<content>>.  `ex` is the exception the engine's constructor throws:    *)
(* <<>> for none, <<what>> for a std::exception with that text.            *)
(***************************************************************************)
NoException == <<>>
EngineExceptions == {NoException, <<EngineWhat>>}
\* A path is the sequence of its pieces, a known extension being one piece;
\* the empty path is <<>>.  base_path arguments: <<>> is a null pointer.
MapOsrm == <<"/data/map", ".osrm">>
MapOsrmOsrm == <<"/data/map", ".osrm", ".osrm">>
BasePaths == {<<>>, <<MapOsrm>>}
ConfigBasePaths == {<<>>, <<MapOsrm>>, <<MapOsrmOsrm>>}

\* std::tolower over a string of character codes
ToLower(name) == [i \in 1..Len(name) |-> IF name[i] \in 65..90 THEN name[i] + 32 ELSE name[i]]
\* "route_steps", "route_geometry"
route_steps == <<114, 111, 117, 116, 101, 95, 115, 116, 101, 112, 115>>
route_geometry == <<114, 111, 117, 116, 101, 95, 103, 101, 111, 109, 101, 116, 114, 121>>
\* dataset_name arguments: null, "route_steps", "ROUTE_STEPS",
\* "Route_Geometry", "route"
DatasetNames ==
  {<<>>, <<route_steps>>,
   << <<82, 79, 85, 84, 69, 95, 83, 84, 69, 80, 83>> >>,
   << <<82, 111, 117, 116, 101, 95, 71, 101, 111, 109, 101, 116, 114, 121>> >>,
   << <<114, 111, 117, 116, 101>> >>}

\* osrm::StorageConfig.  The engine's constructor from a path keeps as
\* base_path the path without the first known extension it finds, trying
\* the extensions in this order (IOConfig::UseDefaultOutputNames).
known_extensions == <<".osm.bz2", ".osm.pbf", ".osm.xml", ".pbf", ".osm", ".osrm">>
Without(path, i) == [j \in 1..(Len(path) - 1) |-> IF j < i THEN path[j] ELSE path[j + 1]]
Found(path, ext) == {i \in 1..Len(path) : path[i] = ext}
UseDefaultOutputNames(base) ==
  LET tried == {e \in 1..Len(known_extensions) : Found(base, known_extensions[e]) # {}}
  IN IF tried = {} THEN base
     ELSE LET e == CHOOSE x \in tried : \A y \in tried : x <= y
              pos == CHOOSE i \in Found(base, known_extensions[e]) :
                       \A j \in Found(base, known_extensions[e]) : i <= j
          IN Without(base, pos)
\* StorageConfig(disabled_feature_datasets) and StorageConfig(base, disabled)
StorageConfigOf(disabled) == [base_path |-> <<>>, disabled_feature_datasets |-> disabled]
StorageConfig(base, disabled) ==
  [base_path |-> UseDefaultOutputNames(base), disabled_feature_datasets |-> disabled]

\* osrm::EngineConfig as its default constructor leaves it
EngineConfig ==
  [storage_config |-> StorageConfigOf(<<>>), use_shared_memory |-> TRUE,
   disable_feature_dataset |-> <<>>]

osrmc_config_construct(base_path, ex, error) ==
  IF ex # NoException
  THEN Dispatched(<<>>, osrmc_error_from_exception(ex[1], error), TRUE)
  ELSE IF base_path # <<>>
  THEN Dispatched(<< [EngineConfig EXCEPT !.storage_config = StorageConfig(base_path[1], <<>>),
                                          !.use_shared_memory = FALSE] >>, error, TRUE)
  ELSE Dispatched(<< [EngineConfig EXCEPT !.use_shared_memory = TRUE] >>, error, TRUE)

\* the result of a void entry point on a config handle
ConfigRet(object, error, failed) ==
  [object |-> object, error |-> error, failed |-> failed, engine |-> FALSE]

\* the storage config rebuilt from the base path it holds and the list
Regenerated(c) ==
  LET base_path == c.storage_config.base_path
  IN [c EXCEPT !.storage_config =
        IF base_path # <<>> THEN StorageConfig(base_path, c.disable_feature_dataset)
        ELSE StorageConfigOf(c.disable_feature_dataset)]

Contains(list, x) == \E i \in 1..Len(list) : list[i] = x

osrmc_config_disable_feature_dataset_duplicating(config, object, dataset_name, error) ==
  LET lower_name == ToLower(dataset_name[1])
  IN IF config = NullHandle \/ dataset_name = <<>> \/ lower_name \notin {route_steps, route_geometry}
     THEN ConfigRet(object, osrmc_set_error(error, "InvalidDataset", "Unknown dataset"), TRUE)
     ELSE ConfigRet(<< Regenerated([object[1] EXCEPT !.disable_feature_dataset =
                          Append(@, IF lower_name = route_steps THEN "ROUTE_STEPS" ELSE "ROUTE_GEOMETRY")]) >>,
                    error, FALSE)
osrmc_config_disable_feature_dataset(config, object, dataset_name, error) ==
  IF config = NullHandle
  THEN ConfigRet(object, osrmc_set_error(error, "InvalidArgument", "Config must not be null"), TRUE)
  ELSE IF dataset_name = <<>>
  THEN ConfigRet(object, osrmc_set_error(error, "InvalidDataset", "Dataset name must not be null"), TRUE)
  ELSE LET lower_name == ToLower(dataset_name[1])
           dataset == IF lower_name = route_steps THEN <<"ROUTE_STEPS">>
                      ELSE IF lower_name = route_geometry THEN <<"ROUTE_GEOMETRY">>
                      ELSE <<>>
           c == object[1]
       IN IF dataset = <<>>
          THEN ConfigRet(object, osrmc_set_error(error, "InvalidDataset", "Unknown dataset"), TRUE)
          ELSE IF Contains(c.disable_feature_dataset, dataset[1])
          THEN ConfigRet(object, error, FALSE)
          ELSE ConfigRet(<< Regenerated([c EXCEPT !.disable_feature_dataset = Append(@, dataset[1])]) >>,
                         error, FALSE)

\* config_typed->use_shared_memory = use_shared_memory;
osrmc_config_set_use_shared_memory(config, object, use_shared_memory, error) ==
  IF config = NullHandle
  THEN ConfigRet(object, osrmc_set_error(error, "InvalidArgument", "Config must not be null"), TRUE)
  ELSE ConfigRet(<< [object[1] EXCEPT !.use_shared_memory = use_shared_memory] >>, error, FALSE)

osrmc_config_clear_disabled_feature_datasets(config, object, error) ==
  IF config = NullHandle
  THEN ConfigRet(object, osrmc_set_error(error, "InvalidArgument", "Config must not be null"), TRUE)
  ELSE ConfigRet(<< Regenerated([object[1] EXCEPT !.disable_feature_dataset = <<>>]) >>, error, FALSE)

osrmc_feature_dataset_name(dataset) ==
  CASE dataset = "ROUTE_STEPS" -> route_steps
    [] dataset = "ROUTE_GEOMETRY" -> route_geometry
    [] OTHER -> <<>>

osrmc_config_get_disabled_feature_dataset_count(config, object, out, error) ==
  IF ~out
  THEN Got(osrmc_set_error(error, "InvalidArgument", "Output pointer must not be null"), TRUE, <<>>, <<>>)
  ELSE IF config = NullHandle
  THEN Got(osrmc_set_error(error, "InvalidArgument", "Config must not be null"), TRUE, <<>>, <<>>)
  ELSE Got(error, FALSE, <<>>, <<Len(object[1].disable_feature_dataset)>>)

osrmc_config_get_disabled_feature_dataset_at(config, object, index, out, error) ==
  IF ~out
  THEN Got(osrmc_set_error(error, "InvalidArgument", "Output pointer must not be null"), TRUE, <<>>, <<>>)
  ELSE IF config = NullHandle
  THEN Got(osrmc_set_error(error, "InvalidArgument", "Config must not be null"), TRUE, <<>>, <<>>)
  ELSE IF index >= Len(object[1].disable_feature_dataset)
  THEN Got(osrmc_set_error(error, "InvalidIndex", "Dataset index out of range"), TRUE, <<>>, <<>>)
  ELSE Got(error, FALSE, <<>>, <<osrmc_feature_dataset_name(object[1].disable_feature_dataset[index + 1])>>)

\* the engine copies the config it is constructed from; `object` is what
\* the config handle owns
osrmc_osrm_construct_unguarded(config, object, ex, error) ==
  Dispatched(<< [config |-> object] >>, error, TRUE)
osrmc_osrm_construct(config, object, ex, error) ==
  IF config = NullHandle
  THEN Dispatched(<<>>, osrmc_set_error(error, "InvalidArgument", "Config must not be null"), FALSE)
  ELSE IF ex # NoException
  THEN Dispatched(<<>>, osrmc_error_from_exception(ex[1], error), TRUE)
  ELSE Dispatched(<< [config |-> object[1]] >>, error, TRUE)

\* the destructors: delete the object behind a non-null handle.  `object`
\* is what the handle owns, <<>> afterwards.
osrmc_config_destruct(config, object) == IF config # NullHandle THEN <<>> ELSE object
osrmc_osrm_destruct(osrm, object) == IF osrm # NullHandle THEN <<>> ELSE object
osrmc_route_response_destruct_unguarded(response, object) == <<>>
osrmc_route_response_destruct(response, object) == IF response # NullHandle THEN <<>> ELSE object
osrmc_tile_response_destruct(response, object) == IF response # NullHandle THEN <<>> ELSE object
\* the parameter destructors (nearest, route, table, match, trip, tile) and
\* the destructor of an error record
osrmc_params_destruct(params, object) == IF params # NullHandle THEN <<>> ELSE object
osrmc_error_destruct(error, object) == IF error # NullHandle THEN <<>> ELSE object

(***************************************************************************)
(* Route parameters: waypoints.                                            *)
(***************************************************************************)
osrmc_route_params_add_waypoint_checked(params, p, index, error) ==
  IF params = NullHandle \/ index >= Len(p.coordinates)
  THEN Ret(p, osrmc_set_error(error, "InvalidArgument", "Waypoint index out of bounds"), TRUE)
  ELSE Ret([p EXCEPT !.waypoints = Append(@, index)], error, FALSE)
osrmc_route_params_add_waypoint(params, p, index, error) ==
  IF params = NullHandle
  THEN Ret(p, osrmc_set_error(error, "InvalidArgument", "Params must not be null"), TRUE)
  ELSE Ret([p EXCEPT !.waypoints = Append(@, index)], error, FALSE)

osrmc_route_params_get_waypoint_count(params, p, out, error) ==
  IF ~out
  THEN Got(osrmc_set_error(error, "InvalidArgument", "Output pointer must not be null"), TRUE, <<>>, <<>>)
  ELSE IF params = NullHandle
  THEN Got(osrmc_set_error(error, "InvalidArgument", "Params must not be null"), TRUE, <<>>, <<>>)
  ELSE Got(error, FALSE, <<>>, <<Len(p.waypoints)>>)

osrmc_route_params_get_waypoint(params, p, index, out, error) ==
  IF ~out
  THEN Got(osrmc_set_error(error, "InvalidArgument", "Output pointer must not be null"), TRUE, <<>>, <<>>)
  ELSE IF params = NullHandle
  THEN Got(osrmc_set_error(error, "InvalidArgument", "Params must not be null"), TRUE, <<>>, <<>>)
  ELSE IF index >= Len(p.waypoints)
  THEN Got(osrmc_set_error(error, "InvalidIndex", "Waypoint index out of bounds"), TRUE, <<>>, <<>>)
  ELSE Got(error, FALSE, <<>>, <<p.waypoints[index + 1]>>)

\* no error parameter: a null handle is skipped silently
osrmc_route_params_clear_waypoints(params, p) ==
  IF params # NullHandle THEN [p EXCEPT !.waypoints = <<>>] ELSE p

\* the same entry points of the match and trip parameter handles
osrmc_match_params_add_waypoint(params, p, index, error) ==
  IF params = NullHandle
  THEN Ret(p, osrmc_set_error(error, "InvalidArgument", "Params must not be null"), TRUE)
  ELSE Ret([p EXCEPT !.waypoints = Append(@, index)], error, FALSE)

osrmc_match_params_clear_waypoints(params, p) ==
  IF params # NullHandle THEN [p EXCEPT !.waypoints = <<>>] ELSE p

osrmc_trip_params_add_waypoint(params, p, index, error) ==
  IF params = NullHandle
  THEN Ret(p, osrmc_set_error(error, "InvalidArgument", "Params must not be null"), TRUE)
  ELSE Ret([p EXCEPT !.waypoints = Append(@, index)], error, FALSE)

osrmc_trip_params_clear_waypoints(params, p) ==
  IF params # NullHandle THEN [p EXCEPT !.waypoints = <<>>] ELSE p

(***************************************************************************)
(* State.                                                                  *)
(*   config   : the EngineConfig the caller's config handle owns           *)
(*   osrm     : the engine the caller's engine handle owns                 *)
(*   params   : the RouteParameters behind the live parameter handle       *)
(*   response : the holder the caller's response handle owns               *)
(*   tile     : the std::string the caller's tile response handle owns     *)
(*   err      : the error argument of the last call as the call left it    *)
(*              (NoSlot after an entry point without an error parameter)   *)
(*   last     : the last call: its entry point, whether it failed, whether *)
(*              a handle argument was null                                 *)
(*   written  : history: per vector and coordinate index, <<>> if no call  *)
(*              has written the index, else <<o>> where o is the optional  *)
(*              the last successful write for that index asked for         *)
(*   given    : history: the base_path argument the config the handle owns *)
(*              was constructed with (<<>> without a config)               *)
(*   buffers  : the heap blocks of a response's FlatBuffer (the builder's  *)
(*              raw buffer and the copy a transfer makes), each "none",    *)
(*              "live", "freed" or "freed twice", and the data pointer and *)
(*              deleter in the caller's variables (<<>> when not held)     *)
(*   threads  : per thread dispatching on the engine, where it stands in   *)
(*              the dispatcher, its request, and the dispatcher's locals   *)
(***************************************************************************)
VARIABLES config, osrm, params, response, tile, err, last, written, given, buffers, threads

vars == <<config, osrm, params, response, tile, err, last, written, given, buffers, threads>>

World ==
  [config |-> config, osrm |-> osrm, params |-> params, response |-> response, tile |-> tile]

\* what a call leaves: the objects, the error argument, failure, engine use
Out(world, error, failed, engine) ==
  [world |-> world, error |-> error, failed |-> failed, engine |-> engine]

\* Inputs of the calls
Handles == {NullHandle, LiveHandle}
HandlesOf(object) == IF object = <<>> THEN {NullHandle} ELSE Handles
Coordinate == <<13, 52>>
Indices == 0..MaxCoords
SetRadiusInputs == {Dbl(-1), Dbl(5)}
AddRadiusInputs == {Dbl(5)}
SetBearingInputs == {<<-1, 10>>, <<90, 10>>}
AddBearingInputs == {<<90, 10>>}
ApproachInputs == {APPROACH_CURB, 7}

\* the optional a write asks for, by the sentinel rule of each setter
AskedRadius(radius) == IF DblLT0(radius) THEN nullopt ELSE Some(radius)
AskedBearing(value, range) ==
  IF value < 0 \/ range < 0 THEN nullopt ELSE Some(<<value, range>>)
AskedApproach(approach) == Some(approach)
AskedHint(hint_base64) == IF hint_base64 = <<>> THEN nullopt ELSE Some(hint_base64[1])

\* a thread outside the dispatchers
Threads == 1..MaxThreads
Idle ==
  [pc |-> "idle", op |-> "", error |-> NoSlot, outcome |-> NotInvoked,
   status |-> "", result |-> ResultString(""), ret |-> <<>>, out_error |-> NoSlot]

\* the heap before a response is made, the caller holding nothing
Blocks == {"raw buffer", "copy"}
NoBuffers == [heap |-> [b \in Blocks |-> "none"], data |-> <<>>, deleter |-> <<>>]
\* std::malloc made the blocks named; std::free was given the pointers named
\* (free of a null pointer does nothing)
Malloc(heap, names) == [b \in Blocks |-> IF b \in names THEN "live" ELSE heap[b]]
Free(heap, names) ==
  [b \in Blocks |-> IF b \notin names THEN heap[b]
                    ELSE IF heap[b] = "live" THEN "freed" ELSE "freed twice"]
\* the blocks the destructor of a holder frees: the buffer its builder owns
OwnedBy(object) ==
  IF object # <<>> /\ object[1].result.alt = "FlatBufferBuilder" /\ object[1].result.fb.buffer = "owned"
  THEN {"raw buffer"} ELSE {}
\* the blocks osrmc_route_response_destruct gives back
Released(handle, object) == IF handle # NullHandle THEN OwnedBy(object) ELSE {}

NeverWritten ==
  [radiuses |-> <<>>, bearings |-> <<>>, approaches |-> <<>>, hints |-> <<>>]
\* a coordinate is appended: its index is written in the vectors named
NoteAppend(w, radius, bearing) ==
  [radiuses |-> Append(w.radiuses, radius), bearings |-> Append(w.bearings, bearing),
   approaches |-> Append(w.approaches, <<>>), hints |-> Append(w.hints, <<>>)]
NoteWrite(w, vector, coordinate_index, asked) ==
  [w EXCEPT ![vector] = [@ EXCEPT ![coordinate_index + 1] = <<asked>>]]

Init ==
  /\ config = <<>>
  /\ osrm = <<>>
  /\ params = RouteParameters
  /\ response = <<>>
  /\ tile = <<>>
  /\ err = NoSlot
  /\ last = [op |-> "osrmc_route_params_construct", failed |-> FALSE, null |-> FALSE]
  /\ written = NeverWritten
  /\ given = <<>>
  /\ buffers = NoBuffers
  /\ threads = [t \in Threads |-> Idle]

\* what a call leaves in the objects, the error argument and `last`
Left(op, null, out) ==
  /\ config' = out.world.config
  /\ osrm' = out.world.osrm
  /\ params' = out.world.params
  /\ response' = out.world.response
  /\ tile' = out.world.tile
  /\ err' = out.error
  /\ last' = [op |-> op, failed |-> out.failed, null |-> null]

\* a call that leaves a config constructed with base path g
DoConfig(op, null, out, w, g) ==
  /\ Left(op, null, out)
  /\ written' = w
  /\ given' = IF out.world.config = <<>> THEN <<>> ELSE g
  /\ buffers' = buffers
  /\ threads' = threads

Do(op, null, out, w) ==
  /\ Left(op, null, out)
  /\ written' = w
  /\ given' = IF out.world.config = <<>> THEN <<>> ELSE given
  /\ buffers' = buffers
  /\ threads' = threads

\* a call that leaves the heap and the caller's buffer variables as b
DoBuffers(op, null, out, b) ==
  /\ Left(op, null, out)
  /\ written' = written
  /\ given' = IF out.world.config = <<>> THEN <<>> ELSE given
  /\ buffers' = b
  /\ threads' = threads

\* a call on the parameter handle, applied to the caller's objects
OnParams(W, r) == Out([W EXCEPT !.params = r.params], r.error, r.failed, r.engine)

(***************************************************************************)
(* The parameter marshaller.  Each action takes the handles H and the error *)
(* arguments E its caller passes, and T: whether the history is kept.      *)
(***************************************************************************)
AddCoordinate(H, E, T) ==
  \E h \in H, error \in E :
    LET r == osrmc_params_add_coordinate(h, params, Coordinate[1], Coordinate[2], error)
    IN /\ Len(params.coordinates) < MaxCoords
       /\ Do("osrmc_params_add_coordinate", h = NullHandle, OnParams(World, r),
             IF r.failed \/ ~T THEN written ELSE NoteAppend(written, <<>>, <<>>))

\* R, B: the radiuses and the (bearing, range) pairs the caller passes
AddCoordinateWith(H, E, T, R, B) ==
  \E h \in H, error \in E, radius \in R, b \in B :
    LET r == osrmc_params_add_coordinate_with(h, params, Coordinate[1], Coordinate[2],
                                              radius, b[1], b[2], error)
    IN /\ Len(params.coordinates) < MaxCoords
       /\ Do("osrmc_params_add_coordinate_with", h = NullHandle, OnParams(World, r),
             IF r.failed \/ ~T THEN written
             ELSE NoteAppend(written, <<Some(radius)>>, <<Some(b)>>))

SetRadius(H, E, T) ==
  \E h \in H, error \in E, i \in Indices, radius \in SetRadiusInputs :
    LET r == osrmc_params_set_radius(h, params, i, radius, error)
    IN Do("osrmc_params_set_radius", h = NullHandle, OnParams(World, r),
          IF r.failed \/ ~T THEN written ELSE NoteWrite(written, "radiuses", i, AskedRadius(radius)))

SetBearing(H, E, T) ==
  \E h \in H, error \in E, i \in Indices, b \in SetBearingInputs :
    LET r == osrmc_params_set_bearing(h, params, i, b[1], b[2], error)
    IN Do("osrmc_params_set_bearing", h = NullHandle, OnParams(World, r),
          IF r.failed \/ ~T THEN written ELSE NoteWrite(written, "bearings", i, AskedBearing(b[1], b[2])))

SetApproach(H, E, T) ==
  \E h \in H, error \in E, i \in Indices, approach \in ApproachInputs :
    LET r == osrmc_params_set_approach(h, params, i, approach, error)
    IN Do("osrmc_params_set_approach", h = NullHandle, OnParams(World, r),
          IF r.failed \/ ~T THEN written ELSE NoteWrite(written, "approaches", i, AskedApproach(approach)))

SetHint(H, E, T) ==
  \E h \in H, error \in E, i \in Indices, hint \in HintInputs :
    LET r == osrmc_params_set_hint(h, params, i, hint, error)
    IN Do("osrmc_params_set_hint", h = NullHandle, OnParams(World, r),
          IF r.failed \/ ~T THEN written ELSE NoteWrite(written, "hints", i, AskedHint(hint)))

NextParams ==
  \/ AddCoordinate({LiveHandle}, {EmptySlot}, FALSE)
  \/ AddCoordinateWith({LiveHandle}, {EmptySlot}, FALSE, AddRadiusInputs, AddBearingInputs)
  \/ SetRadius({LiveHandle}, {EmptySlot}, FALSE)
  \/ SetBearing({LiveHandle}, {EmptySlot}, FALSE)
  \/ SetApproach({LiveHandle}, {EmptySlot}, FALSE)
  \/ SetHint({LiveHandle}, {EmptySlot}, FALSE)

SpecParams == Init /\ [][NextParams]_vars

\* the radius and bearing vectors under appends with any value, the
\* sentinels included, next to the setters of the two vectors
NextAppend ==
  \/ AddCoordinate({LiveHandle}, {EmptySlot}, FALSE)
  \/ AddCoordinateWith({LiveHandle}, {EmptySlot}, FALSE, SetRadiusInputs, SetBearingInputs)
  \/ SetRadius({LiveHandle}, {EmptySlot}, FALSE)
  \/ SetBearing({LiveHandle}, {EmptySlot}, FALSE)

SpecAppend == Init /\ [][NextAppend]_vars

\* the marshaller with the history of writes kept
NextHistory ==
  \/ AddCoordinate({LiveHandle}, {EmptySlot}, TRUE)
  \/ AddCoordinateWith({LiveHandle}, {EmptySlot}, TRUE, AddRadiusInputs, AddBearingInputs)
  \/ SetRadius({LiveHandle}, {EmptySlot}, TRUE)
  \/ SetBearing({LiveHandle}, {EmptySlot}, TRUE)
  \/ SetApproach({LiveHandle}, {EmptySlot}, TRUE)
  \/ SetHint({LiveHandle}, {EmptySlot}, TRUE)

SpecHistory == Init /\ [][NextHistory]_vars

(***************************************************************************)
(* The whole binding: config, engine, dispatch, responses, and the part of *)
(* the marshaller the dispatch uses, called with every kind of handle and  *)
(* error argument.  A constructor or dispatcher runs when the caller's     *)
(* handle variable is free, so no object is leaked.                        *)
(***************************************************************************)
ConfigConstruct(B) ==
  \E base_path \in B, ex \in EngineExceptions, error \in ErrorArgs :
    LET r == osrmc_config_construct(base_path, ex, error)
    IN /\ config = <<>>
       /\ DoConfig("osrmc_config_construct", FALSE,
                   Out([World EXCEPT !.config = r.ret], r.error, r.failed, r.engine), written,
                   base_path)

ConfigDestruct ==
  \E h \in HandlesOf(config) :
    Do("osrmc_config_destruct", h = NullHandle,
       Out([World EXCEPT !.config = osrmc_config_destruct(h, config)], NoSlot, FALSE, FALSE), written)

OsrmConstruct ==
  \E h \in HandlesOf(config), ex \in EngineExceptions, error \in ErrorArgs :
    LET r == osrmc_osrm_construct(h, config, ex, error)
    IN /\ osrm = <<>>
       /\ Do("osrmc_osrm_construct", h = NullHandle,
             Out([World EXCEPT !.osrm = r.ret], r.error, r.failed, r.engine), written)

OsrmDestruct ==
  \E h \in HandlesOf(osrm) :
    Do("osrmc_osrm_destruct", h = NullHandle,
       Out([World EXCEPT !.osrm = osrmc_osrm_destruct(h, osrm)], NoSlot, FALSE, FALSE), written)

\* a dispatch that returned r, the handle assigned to the caller's variable
Serviced(op, o, h, r) ==
  /\ response = <<>>
  /\ Do(op, o = NullHandle \/ h = NullHandle,
        Out([World EXCEPT !.response = r.ret], r.error, r.failed, r.engine), written)

\* the same with the heap kept: the caller dispatches once it has released
\* what the response before gave it; the engine allocated the buffer of the
\* builder it returned
ServicedOnHeap(op, o, h, r) ==
  /\ response = <<>>
  /\ buffers.data = <<>>
  /\ \A b \in Blocks : buffers.heap[b] # "live"
  /\ DoBuffers(op, o = NullHandle \/ h = NullHandle,
               Out([World EXCEPT !.response = r.ret], r.error, r.failed, r.engine),
               [NoBuffers EXCEPT !.heap = Malloc(@, OwnedBy(r.ret))])

Nearest ==
  \E o \in HandlesOf(osrm), h \in Handles, error \in ErrorArgs :
    \E outcome \in OutcomesFor(o, h, ServiceOutcomes) :
    Serviced("osrmc_nearest", o, h, osrmc_nearest(o, h, outcome, error))

\* T: whether the heap is kept
Route(T) ==
  \E o \in HandlesOf(osrm), h \in Handles, error \in ErrorArgs :
    \E outcome \in OutcomesFor(o, h, ServiceOutcomes) :
    IF T THEN ServicedOnHeap("osrmc_route", o, h, osrmc_route(o, h, outcome, error))
    ELSE Serviced("osrmc_route", o, h, osrmc_route(o, h, outcome, error))

Table ==
  \E o \in HandlesOf(osrm), h \in Handles, error \in ErrorArgs :
    \E outcome \in OutcomesFor(o, h, ServiceOutcomes) :
    Serviced("osrmc_table", o, h, osrmc_table(o, h, outcome, error))

Match ==
  \E o \in HandlesOf(osrm), h \in Handles, error \in ErrorArgs :
    \E outcome \in OutcomesFor(o, h, ServiceOutcomes) :
    Serviced("osrmc_match", o, h, osrmc_match(o, h, outcome, error))

Trip ==
  \E o \in HandlesOf(osrm), h \in Handles, error \in ErrorArgs :
    \E outcome \in OutcomesFor(o, h, ServiceOutcomes) :
    Serviced("osrmc_trip", o, h, osrmc_trip(o, h, outcome, error))

Tile ==
  \E o \in HandlesOf(osrm), h \in Handles, error \in ErrorArgs :
    \E outcome \in OutcomesFor(o, h, TileOutcomes) :
    LET r == osrmc_tile(o, h, outcome, error)
    IN /\ tile = <<>>
       /\ Do("osrmc_tile", o = NullHandle \/ h = NullHandle,
             Out([World EXCEPT !.tile = r.ret], r.error, r.failed, r.engine), written)

ResponseDestruct(T) ==
  \E h \in HandlesOf(response) :
    LET out == Out([World EXCEPT !.response = osrmc_route_response_destruct(h, response)],
                   NoSlot, FALSE, FALSE)
    IN IF T
       THEN DoBuffers("osrmc_route_response_destruct", h = NullHandle, out,
                      [buffers EXCEPT !.heap = Free(@, Released(h, response))])
       ELSE Do("osrmc_route_response_destruct", h = NullHandle, out, written)

TileResponseDestruct ==
  \E h \in HandlesOf(tile) :
    Do("osrmc_tile_response_destruct", h = NullHandle,
       Out([World EXCEPT !.tile = osrmc_tile_response_destruct(h, tile)],
           NoSlot, FALSE, FALSE), written)

\* a successful transfer leaves its outputs in the caller's variables
TransferFlatbuffer(T) ==
  \E h \in HandlesOf(response), outs \in OutputArgs, malloc_fails \in BOOLEAN,
     error \in ErrorArgs :
    LET t == osrmc_response_transfer_flatbuffer(h, response, outs, malloc_fails, error)
        out == Out([World EXCEPT !.response = t.response], t.error, t.failed, t.engine)
    IN IF T
       THEN DoBuffers("osrmc_route_response_transfer_flatbuffer", h = NullHandle, out,
                      [heap |-> Free(Malloc(buffers.heap, t.allocated), t.freed),
                       data |-> IF t.failed THEN buffers.data ELSE t.data,
                       deleter |-> IF t.failed THEN buffers.deleter ELSE t.deleter])
       ELSE Do("osrmc_route_response_transfer_flatbuffer", h = NullHandle, out, written)

\* I: the indices the caller passes; N: the length the list is kept below
AddWaypoint(I, N) ==
  \E h \in Handles, index \in I, error \in ErrorArgs :
    LET r == osrmc_route_params_add_waypoint(h, params, index, error)
    IN /\ Len(params.waypoints) < N
       /\ Do("osrmc_route_params_add_waypoint", h = NullHandle, OnParams(World, r), written)

ClearWaypoints ==
  \E h \in Handles :
    Do("osrmc_route_params_clear_waypoints", h = NullHandle,
       Out([World EXCEPT !.params = osrmc_route_params_clear_waypoints(h, params)],
           NoSlot, FALSE, FALSE), written)

Next ==
  \/ ConfigConstruct(BasePaths)
  \/ ConfigDestruct
  \/ OsrmConstruct
  \/ OsrmDestruct
  \/ AddCoordinate(Handles, ErrorArgs, FALSE)
  \/ AddWaypoint({0}, Len(params.coordinates))
  \/ ClearWaypoints
  \/ Nearest
  \/ Route(FALSE)
  \/ Table
  \/ Match
  \/ Trip
  \/ Tile
  \/ ResponseDestruct(FALSE)
  \/ TileResponseDestruct
  \/ TransferFlatbuffer(FALSE)

Spec == Init /\ [][Next]_vars

(***************************************************************************)
(* The intermediate-waypoint list of a route parameter handle next to its  *)
(* coordinates: waypoints are added with any index, before or after the    *)
(* coordinates they name.                                                  *)
(***************************************************************************)
NextWaypoints ==
  \/ AddCoordinate({LiveHandle}, {EmptySlot}, FALSE)
  \/ AddWaypoint(Indices, MaxCoords)
  \/ ClearWaypoints

SpecWaypoints == Init /\ [][NextWaypoints]_vars

(***************************************************************************)
(* A route response and its FlatBuffer on the heap: dispatch, transfer,    *)
(* the destructor of the response, and the caller running the deleter a    *)
(* transfer gave it on the data pointer it came with.                      *)
(***************************************************************************)
\* static void osrmc_free_deleter(void* ptr) { std::free(ptr); }
osrmc_free_deleter_idle(heap, ptr) == heap
osrmc_free_deleter(heap, ptr) == Free(heap, {ptr})

\* the caller runs the deleter once and drops the two variables
Deleter ==
  /\ buffers.deleter = <<"osrmc_free_deleter">>
  /\ DoBuffers("osrmc_free_deleter", FALSE, Out(World, NoSlot, FALSE, FALSE),
               [heap |-> osrmc_free_deleter(buffers.heap, buffers.data[1]),
                data |-> <<>>, deleter |-> <<>>])

NextBuffers ==
  \/ ConfigConstruct(BasePaths)
  \/ OsrmConstruct
  \/ Route(TRUE)
  \/ TransferFlatbuffer(TRUE)
  \/ ResponseDestruct(TRUE)
  \/ Deleter

SpecBuffers == Init /\ [][NextBuffers]_vars

(***************************************************************************)
(* The config handle alone: construction from every kind of base path, the *)
(* feature-dataset disable list, and the engine constructed from it.       *)
(***************************************************************************)
\* as if the engine read the caller's config object instead of its own copy
DisableFeatureDatasetShared ==
  \E h \in HandlesOf(config), dataset_name \in DatasetNames, error \in ErrorArgs :
    LET r == osrmc_config_disable_feature_dataset(h, config, dataset_name, error)
    IN Do("osrmc_config_disable_feature_dataset", h = NullHandle,
          Out([World EXCEPT !.config = r.object,
                            !.osrm = IF osrm = <<>> THEN osrm ELSE << [config |-> r.object[1]] >>],
              r.error, r.failed, r.engine), written)
DisableFeatureDataset ==
  \E h \in HandlesOf(config), dataset_name \in DatasetNames, error \in ErrorArgs :
    LET r == osrmc_config_disable_feature_dataset(h, config, dataset_name, error)
    IN Do("osrmc_config_disable_feature_dataset", h = NullHandle,
          Out([World EXCEPT !.config = r.object], r.error, r.failed, r.engine), written)

ClearDisabledFeatureDatasets ==
  \E h \in HandlesOf(config), error \in ErrorArgs :
    LET r == osrmc_config_clear_disabled_feature_datasets(h, config, error)
    IN Do("osrmc_config_clear_disabled_feature_datasets", h = NullHandle,
          Out([World EXCEPT !.config = r.object], r.error, r.failed, r.engine), written)

SetUseSharedMemory ==
  \E h \in HandlesOf(config), use_shared_memory \in BOOLEAN, error \in ErrorArgs :
    LET r == osrmc_config_set_use_shared_memory(h, config, use_shared_memory, error)
    IN Do("osrmc_config_set_use_shared_memory", h = NullHandle,
          Out([World EXCEPT !.config = r.object], r.error, r.failed, r.engine), written)

NextConfig ==
  \/ ConfigConstruct(ConfigBasePaths)
  \/ ConfigDestruct
  \/ DisableFeatureDataset
  \/ ClearDisabledFeatureDatasets
  \/ SetUseSharedMemory
  \/ OsrmConstruct
  \/ OsrmDestruct

SpecConfig == Init /\ [][NextConfig]_vars

(***************************************************************************)
(* An engine next to the config it was constructed from: the caller goes   *)
(* on changing and destructing the config, fills the parameters, and       *)
(* dispatches on the engine.                                               *)
(***************************************************************************)
NextEngine ==
  \/ ConfigConstruct(BasePaths)
  \/ ConfigDestruct
  \/ DisableFeatureDataset
  \/ ClearDisabledFeatureDatasets
  \/ SetUseSharedMemory
  \/ OsrmConstruct
  \/ OsrmDestruct
  \/ AddCoordinate({LiveHandle}, {EmptySlot}, FALSE)
  \/ Route(FALSE)
  \/ ResponseDestruct(FALSE)

SpecEngine == Init /\ [][NextEngine]_vars

(***************************************************************************)
(* Threads dispatching on one engine.  Each thread has its own parameter   *)
(* handle and error slot; its request is the service it calls and what the *)
(* engine answers to its parameters.  A dispatcher runs in three steps:    *)
(* the null checks and the initialisation of its local `result`, the call  *)
(* of the engine, and the translation of the status into the return value. *)
(***************************************************************************)
ThreadServices == {"osrmc_route", "osrmc_tile"}
DispatchOutcomes(op) ==
  IF op = "osrmc_tile"
  THEN { Returns("Ok", ResultString("tile")),
         Returns("Error", ResultString("")),
         Returns("Error", ResultJson(JString("NoRoute"), JString("Impossible route"))),
         Throws(EngineWhat) }
  ELSE { Returns("Ok", ResultFlatbuffer(Builder(8, 0))),
         Returns("Error", ResultFlatbuffer(FlatBufferBuilder)),
         Returns("Error", ResultJson(JString("NoRoute"), JString("Impossible route"))),
         Throws(EngineWhat) }

\* the dispatcher run in one piece on a live engine and parameter handle
Dispatch(op, outcome, error) ==
  IF op = "osrmc_tile" THEN osrmc_tile(LiveHandle, LiveHandle, outcome, error)
  ELSE osrmc_route(LiveHandle, LiveHandle, outcome, error)

\* osrm::engine::api::ResultT result = ...: a local of the call
ResultShared(th, t) ==
  LET others == {u \in Threads \ {t} : th[u].pc \in {"translate", "done"}}
  IN IF others = {} THEN th[t].result ELSE th[CHOOSE u \in others : TRUE].result
Result(th, t) == th[t].result

InitThreads ==
  /\ config = osrmc_config_construct(<<MapOsrm>>, NoException, NoSlot).ret
  /\ osrm = osrmc_osrm_construct(LiveHandle, config, NoException, NoSlot).ret
  /\ params = RouteParameters
  /\ response = <<>>
  /\ tile = <<>>
  /\ err = NoSlot
  /\ last = [op |-> "osrmc_osrm_construct", failed |-> FALSE, null |-> FALSE]
  /\ written = NeverWritten
  /\ given = <<MapOsrm>>
  /\ buffers = NoBuffers
  /\ threads = [t \in Threads |-> Idle]

\* a step of a thread leaves what the caller of the other calls holds
OnThread(t, th) ==
  /\ threads' = [threads EXCEPT ![t] = th]
  /\ UNCHANGED <<config, osrm, params, response, tile, err, last, written, given, buffers>>

Enter(t) ==
  \E op \in ThreadServices, error \in {EmptySlot, StaleSlot} : \E outcome \in DispatchOutcomes(op) :
    /\ threads[t].pc = "idle"
    /\ osrm # <<>>
    /\ OnThread(t, [Idle EXCEPT !.pc = "invoke", !.op = op, !.error = error, !.outcome = outcome,
                                !.result = IF op = "osrmc_tile" THEN ResultString("")
                                           ELSE ResultFlatbuffer(FlatBufferBuilder)])

\* the engine answers the thread's request into the thread's `result`; an
\* exception leaves the dispatcher through its handler
Invoke(t) ==
  LET th == threads[t]
  IN /\ th.pc = "invoke"
     /\ IF th.outcome.throws
        THEN LET r == Dispatch(th.op, th.outcome, th.error)
             IN OnThread(t, [th EXCEPT !.pc = "done", !.ret = r.ret, !.out_error = r.error])
        ELSE OnThread(t, [th EXCEPT !.pc = "translate", !.status = th.outcome.status,
                                    !.result = th.outcome.result])

Translate(t) ==
  LET th == threads[t]
      r == Dispatch(th.op, Returns(th.status, Result(threads, t)), th.error)
  IN /\ th.pc = "translate"
     /\ OnThread(t, [th EXCEPT !.pc = "done", !.ret = r.ret, !.out_error = r.error])

\* the caller takes the response and the record, and destructs them
Take(t) ==
  /\ threads[t].pc = "done"
  /\ OnThread(t, Idle)

NextThreads ==
  \E t \in Threads :
    \/ Enter(t)
    \/ Invoke(t)
    \/ Translate(t)
    \/ Take(t)

SpecThreads == InitThreads /\ [][NextThreads]_vars

(***************************************************************************)
(* The enumerated options of a route, match or trip parameter handle.      *)
(* The handle was made by one of the three constructors.                   *)
(***************************************************************************)
IsMatch(p) == "gaps" \in DOMAIN p
IsTrip(p) == "source" \in DOMAIN p
IsRoute(p) == ~IsMatch(p) /\ ~IsTrip(p)

\* enumerator arguments: the members of each closed set and values outside
SnappingInputs == {SNAPPING_DEFAULT, SNAPPING_ANY, 7}
AnnotationsInputs == {ANNOTATIONS_NONE, 1, 5, 64}
GapsInputs == {0, 1, 7}
SourceInputs == {0, 1, 7}
DestinationInputs == {0, 1, 7}

InitOptions ==
  /\ config = <<>>
  /\ osrm = <<>>
  /\ params \in {RouteParameters, MatchParameters, TripParameters}
  /\ response = <<>>
  /\ tile = <<>>
  /\ err = NoSlot
  /\ last = [op |-> IF IsMatch(params) THEN "osrmc_match_params_construct"
                    ELSE IF IsTrip(params) THEN "osrmc_trip_params_construct"
                    ELSE "osrmc_route_params_construct",
             failed |-> FALSE, null |-> FALSE]
  /\ written = NeverWritten
  /\ given = <<>>
  /\ buffers = NoBuffers
  /\ threads = [t \in Threads |-> Idle]

SetSnapping ==
  \E h \in Handles, snapping \in SnappingInputs, error \in ErrorArgs :
    LET r == osrmc_params_set_snapping(h, params, snapping, error)
    IN Do("osrmc_params_set_snapping", h = NullHandle, OnParams(World, r), written)

SetRouteAnnotations ==
  \E h \in Handles, annotations \in AnnotationsInputs, error \in ErrorArgs :
    /\ IsRoute(params)
    /\ Do("osrmc_route_params_set_annotations", h = NullHandle,
          OnParams(World, osrmc_route_params_set_annotations(h, params, annotations, error)), written)

SetMatchAnnotations ==
  \E h \in Handles, annotations \in AnnotationsInputs, error \in ErrorArgs :
    /\ IsMatch(params)
    /\ Do("osrmc_match_params_set_annotations", h = NullHandle,
          OnParams(World, osrmc_match_params_set_annotations(h, params, annotations, error)), written)

SetTripAnnotations ==
  \E h \in Handles, annotations \in AnnotationsInputs, error \in ErrorArgs :
    /\ IsTrip(params)
    /\ Do("osrmc_trip_params_set_annotations", h = NullHandle,
          OnParams(World, osrmc_trip_params_set_annotations(h, params, annotations, error)), written)

SetGaps ==
  \E h \in Handles, gaps \in GapsInputs, error \in ErrorArgs :
    /\ IsMatch(params)
    /\ Do("osrmc_match_params_set_gaps", h = NullHandle,
          OnParams(World, osrmc_match_params_set_gaps(h, params, gaps, error)), written)

SetSource ==
  \E h \in Handles, source \in SourceInputs, error \in ErrorArgs :
    /\ IsTrip(params)
    /\ Do("osrmc_trip_params_set_source", h = NullHandle,
          OnParams(World, osrmc_trip_params_set_source(h, params, source, error)), written)

\* waypoints of a match or trip handle, kept within the coordinates
AddMatchWaypoint ==
  \E h \in Handles, error \in ErrorArgs :
    /\ IsMatch(params)
    /\ Len(params.waypoints) < Len(params.coordinates)
    /\ Do("osrmc_match_params_add_waypoint", h = NullHandle,
          OnParams(World, osrmc_match_params_add_waypoint(h, params, 0, error)), written)

ClearMatchWaypoints ==
  \E h \in Handles :
    /\ IsMatch(params)
    /\ Do("osrmc_match_params_clear_waypoints", h = NullHandle,
          Out([World EXCEPT !.params = osrmc_match_params_clear_waypoints(h, params)],
              NoSlot, FALSE, FALSE), written)

AddTripWaypoint ==
  \E h \in Handles, error \in ErrorArgs :
    /\ IsTrip(params)
    /\ Len(params.waypoints) < Len(params.coordinates)
    /\ Do("osrmc_trip_params_add_waypoint", h = NullHandle,
          OnParams(World, osrmc_trip_params_add_waypoint(h, params, 0, error)), written)

ClearTripWaypoints ==
  \E h \in Handles :
    /\ IsTrip(params)
    /\ Do("osrmc_trip_params_clear_waypoints", h = NullHandle,
          Out([World EXCEPT !.params = osrmc_trip_params_clear_waypoints(h, params)],
              NoSlot, FALSE, FALSE), written)

SetDestination ==
  \E h \in Handles, destination \in DestinationInputs, error \in ErrorArgs :
    /\ IsTrip(params)
    /\ Do("osrmc_trip_params_set_destination", h = NullHandle,
          OnParams(World, osrmc_trip_params_set_destination(h, params, destination, error)),
          written)

NextOptions ==
  \/ AddCoordinate({LiveHandle}, {EmptySlot}, FALSE)
  \/ SetSnapping
  \/ SetRouteAnnotations
  \/ SetMatchAnnotations
  \/ SetTripAnnotations
  \/ SetGaps
  \/ SetSource
  \/ SetDestination
  \/ AddMatchWaypoint
  \/ ClearMatchWaypoints
  \/ AddTripWaypoint
  \/ ClearTripWaypoints

SpecOptions == InitOptions /\ [][NextOptions]_vars

(***************************************************************************)
(* The alternatives flag and the number of alternatives of a route, match  *)
(* or trip parameter handle.                                               *)
(***************************************************************************)
\* int on; unsigned count
OnInputs == {-1, 0, 1}
CountInputs == {0, 1, 3}

SetRouteAlternatives ==
  \E h \in Handles, on \in OnInputs, error \in ErrorArgs :
    /\ IsRoute(params)
    /\ Do("osrmc_route_params_set_alternatives", h = NullHandle,
          OnParams(World, osrmc_route_params_set_alternatives(h, params, on, error)), written)

SetMatchAlternatives ==
  \E h \in Handles, on \in OnInputs, error \in ErrorArgs :
    /\ IsMatch(params)
    /\ Do("osrmc_match_params_set_alternatives", h = NullHandle,
          OnParams(World, osrmc_match_params_set_alternatives(h, params, on, error)), written)

SetTripAlternatives ==
  \E h \in Handles, on \in OnInputs, error \in ErrorArgs :
    /\ IsTrip(params)
    /\ Do("osrmc_trip_params_set_alternatives", h = NullHandle,
          OnParams(World, osrmc_trip_params_set_alternatives(h, params, on, error)), written)

SetRouteNumberOfAlternatives ==
  \E h \in Handles, count \in CountInputs, error \in ErrorArgs :
    /\ IsRoute(params)
    /\ Do("osrmc_route_params_set_number_of_alternatives", h = NullHandle,
          OnParams(World, osrmc_route_params_set_number_of_alternatives(h, params, count, error)),
          written)

SetMatchNumberOfAlternatives ==
  \E h \in Handles, count \in CountInputs, error \in ErrorArgs :
    /\ IsMatch(params)
    /\ Do("osrmc_match_params_set_number_of_alternatives", h = NullHandle,
          OnParams(World, osrmc_match_params_set_number_of_alternatives(h, params, count, error)),
          written)

SetTripNumberOfAlternatives ==
  \E h \in Handles, count \in CountInputs, error \in ErrorArgs :
    /\ IsTrip(params)
    /\ Do("osrmc_trip_params_set_number_of_alternatives", h = NullHandle,
          OnParams(World, osrmc_trip_params_set_number_of_alternatives(h, params, count, error)),
          written)

NextAlternatives ==
  \/ SetRouteAlternatives
  \/ SetMatchAlternatives
  \/ SetTripAlternatives
  \/ SetRouteNumberOfAlternatives
  \/ SetMatchNumberOfAlternatives
  \/ SetTripNumberOfAlternatives

SpecAlternatives == InitOptions /\ [][NextAlternatives]_vars

(***************************************************************************)
(* A table parameter handle: its coordinates, fallback speed and scale     *)
(* factor.                                                                 *)
(***************************************************************************)
\* the doubles a caller passes: NaN, negative, zero, positive
SpeedInputs == {NaN, Dbl(-1), Dbl(0), Dbl(5), Dbl(7)}

InitTable ==
  /\ config = <<>>
  /\ osrm = <<>>
  /\ params = TableParameters
  /\ response = <<>>
  /\ tile = <<>>
  /\ err = NoSlot
  /\ last = [op |-> "osrmc_table_params_construct", failed |-> FALSE, null |-> FALSE]
  /\ written = NeverWritten
  /\ given = <<>>
  /\ buffers = NoBuffers
  /\ threads = [t \in Threads |-> Idle]

SetFallbackSpeed ==
  \E h \in Handles, speed \in SpeedInputs, error \in ErrorArgs :
    LET r == osrmc_table_params_set_fallback_speed(h, params, speed, error)
    IN Do("osrmc_table_params_set_fallback_speed", h = NullHandle, OnParams(World, r), written)

SetScaleFactor ==
  \E h \in Handles, scale_factor \in SpeedInputs, error \in ErrorArgs :
    LET r == osrmc_table_params_set_scale_factor(h, params, scale_factor, error)
    IN Do("osrmc_table_params_set_scale_factor", h = NullHandle, OnParams(World, r), written)

NextTable ==
  \/ AddCoordinate({LiveHandle}, {EmptySlot}, FALSE)
  \/ SetFallbackSpeed
  \/ SetScaleFactor

SpecTable == InitTable /\ [][NextTable]_vars

(***************************************************************************)
(* Every call the caller can make on the objects W with an error argument  *)
(* from E, with what it leaves: Calls(W, E, P) says that P holds of each.  *)
(* `slot` says whether the entry point has                                 *)
(* an error parameter, `null` whether a handle argument is null, `thrown`  *)
(* is <<what>> when engine code threw during the call.  Constructors and   *)
(* dispatchers are called when the caller's handle variable is free.       *)
(***************************************************************************)
Call(op, null, slot, error, throwing, out) ==
  [op |-> op, null |-> null, slot |-> slot, error |-> error,
   thrown |-> IF out.engine THEN throwing ELSE <<>>, out |-> out]

\* a getter leaves the objects alone
OnGet(W, g) == Out(W, g.error, g.failed, FALSE)
\* a constructor or dispatcher, its result assigned to the handle variable
OnReturn(W, variable, r) == Out([W EXCEPT ![variable] = r.ret], r.error, r.failed, r.engine)
ThrownBy(outcome) == IF outcome.throws THEN <<outcome.what>> ELSE <<>>
HintThrown(hint) == IF hint # <<>> /\ Hint_Throws(hint[1]) THEN <<HintWhat>> ELSE <<>>

LifecycleCalls(W, E, P(_)) ==
  (W.config = <<>> =>
     (\A b \in BasePaths, ex \in EngineExceptions, e \in E :
         P(Call("osrmc_config_construct", FALSE, TRUE, e, ex,
            OnReturn(W, "config", osrmc_config_construct(b, ex, e))))))
  /\
  (W.osrm = <<>> =>
     (\A h \in HandlesOf(W.config), ex \in EngineExceptions, e \in E :
         P(Call("osrmc_osrm_construct", h = NullHandle, TRUE, e, ex,
            OnReturn(W, "osrm", osrmc_osrm_construct(h, W.config, ex, e))))))
  /\
  (\A h \in HandlesOf(W.config) :
      P(Call("osrmc_config_destruct", h = NullHandle, FALSE, NoSlot, <<>>,
         Out([W EXCEPT !.config = osrmc_config_destruct(h, W.config)], NoSlot, FALSE, FALSE))))
  /\
  (\A h \in HandlesOf(W.osrm) :
      P(Call("osrmc_osrm_destruct", h = NullHandle, FALSE, NoSlot, <<>>,
         Out([W EXCEPT !.osrm = osrmc_osrm_destruct(h, W.osrm)], NoSlot, FALSE, FALSE))))
  /\
  (\A h \in HandlesOf(W.response) :
      P(Call("osrmc_route_response_destruct", h = NullHandle, FALSE, NoSlot, <<>>,
         Out([W EXCEPT !.response = osrmc_route_response_destruct(h, W.response)], NoSlot, FALSE, FALSE))))
  /\
  (\A h \in HandlesOf(W.tile) :
      P(Call("osrmc_tile_response_destruct", h = NullHandle, FALSE, NoSlot, <<>>,
         Out([W EXCEPT !.tile = osrmc_tile_response_destruct(h, W.tile)], NoSlot, FALSE, FALSE))))

SetterCalls(W, E, P(_)) ==
  (\A h \in Handles, e \in E :
      P(Call("osrmc_params_add_coordinate", h = NullHandle, TRUE, e, <<>>,
         OnParams(W, osrmc_params_add_coordinate(h, W.params, Coordinate[1], Coordinate[2], e)))))
  /\
  (\A h \in Handles, e \in E :
      P(Call("osrmc_params_add_coordinate_with", h = NullHandle, TRUE, e, <<>>,
         OnParams(W, osrmc_params_add_coordinate_with(h, W.params, Coordinate[1], Coordinate[2],
                                                      Dbl(5), 90, 10, e)))))
  /\
  (\A h \in Handles, i \in Indices, e \in E :
      P(Call("osrmc_params_set_radius", h = NullHandle, TRUE, e, <<>>,
         OnParams(W, osrmc_params_set_radius(h, W.params, i, Dbl(5), e)))))
  /\
  (\A h \in Handles, i \in Indices, e \in E :
      P(Call("osrmc_params_set_bearing", h = NullHandle, TRUE, e, <<>>,
         OnParams(W, osrmc_params_set_bearing(h, W.params, i, 90, 10, e)))))
  /\
  (\A h \in Handles, i \in Indices, e \in E :
      P(Call("osrmc_params_set_approach", h = NullHandle, TRUE, e, <<>>,
         OnParams(W, osrmc_params_set_approach(h, W.params, i, APPROACH_CURB, e)))))
  /\
  (\A h \in Handles, i \in Indices, hint \in HintInputs, e \in E :
      P(Call("osrmc_params_set_hint", h = NullHandle, TRUE, e, HintThrown(hint),
         OnParams(W, osrmc_params_set_hint(h, W.params, i, hint, e)))))
  /\
  (\A h \in Handles, e \in E :
      P(Call("osrmc_route_params_add_waypoint", h = NullHandle, TRUE, e, <<>>,
         OnParams(W, osrmc_route_params_add_waypoint(h, W.params, 0, e)))))
  /\
  (\A h \in Handles :
      P(Call("osrmc_route_params_clear_waypoints", h = NullHandle, FALSE, NoSlot, <<>>,
         Out([W EXCEPT !.params = osrmc_route_params_clear_waypoints(h, W.params)],
             NoSlot, FALSE, FALSE))))

GetterCalls(W, E, P(_)) ==
  (\A h \in Handles, out \in BOOLEAN, e \in E :
      P(Call("osrmc_params_get_coordinate_count", h = NullHandle, TRUE, e, <<>>,
         OnGet(W, osrmc_params_get_coordinate_count(h, W.params, out, e)))))
  /\
  (\A h \in Handles, i \in Indices, out \in BOOLEAN, e \in E :
      P(Call("osrmc_params_get_radius", h = NullHandle, TRUE, e, <<>>,
         OnGet(W, osrmc_params_get_radius(h, W.params, i, out, e)))))
  /\
  (\A h \in Handles, i \in Indices, out \in BOOLEAN, e \in E :
      P(Call("osrmc_params_get_bearing", h = NullHandle, TRUE, e, <<>>,
         OnGet(W, osrmc_params_get_bearing(h, W.params, i, out, e)))))
  /\
  (\A h \in Handles, i \in Indices, out \in BOOLEAN, e \in E :
      P(Call("osrmc_params_get_approach", h = NullHandle, TRUE, e, <<>>,
         OnGet(W, osrmc_params_get_approach(h, W.params, i, out, e)))))
  /\
  (\A h \in Handles, i \in Indices, out \in BOOLEAN, e \in E :
      P(Call("osrmc_params_get_hint", h = NullHandle, TRUE, e, <<>>,
         OnGet(W, osrmc_params_get_hint(h, W.params, i, out, e)))))

\* the dispatcher calls, with the engine outcome of each
ServiceCall(W, op, o, h, outcome, e, r) ==
  [call |-> Call(op, o = NullHandle \/ h = NullHandle, TRUE, e, ThrownBy(outcome),
                 OnReturn(W, IF op = "osrmc_tile" THEN "tile" ELSE "response", r)),
   outcome |-> outcome, returned |-> (r.ret # <<>>)]

ServiceCalls(W, E, P(_)) ==
  (W.response = <<>> =>
   \A o \in HandlesOf(W.osrm), h \in Handles, e \in E : \A outcome \in OutcomesFor(o, h, ServiceOutcomes) :
      P(ServiceCall(W, "osrmc_nearest", o, h, outcome, e, osrmc_nearest(o, h, outcome, e))))
  /\
  (W.response = <<>> =>
   \A o \in HandlesOf(W.osrm), h \in Handles, e \in E : \A outcome \in OutcomesFor(o, h, ServiceOutcomes) :
      P(ServiceCall(W, "osrmc_route", o, h, outcome, e, osrmc_route(o, h, outcome, e))))
  /\
  (W.response = <<>> =>
   \A o \in HandlesOf(W.osrm), h \in Handles, e \in E : \A outcome \in OutcomesFor(o, h, ServiceOutcomes) :
      P(ServiceCall(W, "osrmc_table", o, h, outcome, e, osrmc_table(o, h, outcome, e))))
  /\
  (W.response = <<>> =>
   \A o \in HandlesOf(W.osrm), h \in Handles, e \in E : \A outcome \in OutcomesFor(o, h, ServiceOutcomes) :
      P(ServiceCall(W, "osrmc_match", o, h, outcome, e, osrmc_match(o, h, outcome, e))))
  /\
  (W.response = <<>> =>
   \A o \in HandlesOf(W.osrm), h \in Handles, e \in E : \A outcome \in OutcomesFor(o, h, ServiceOutcomes) :
      P(ServiceCall(W, "osrmc_trip", o, h, outcome, e, osrmc_trip(o, h, outcome, e))))
  /\
  (W.tile = <<>> =>
   \A o \in HandlesOf(W.osrm), h \in Handles, e \in E : \A outcome \in OutcomesFor(o, h, TileOutcomes) :
      P(ServiceCall(W, "osrmc_tile", o, h, outcome, e, osrmc_tile(o, h, outcome, e))))

ResponseCalls(W, E, P(_)) ==
  (\A h \in HandlesOf(W.response), outs \in OutputArgs, malloc_fails \in BOOLEAN, e \in E :
      P(LET t == osrmc_response_transfer_flatbuffer(h, W.response, outs, malloc_fails, e)
        IN Call("osrmc_route_response_transfer_flatbuffer", h = NullHandle, TRUE, e, <<>>,
            Out([W EXCEPT !.response = t.response], t.error, t.failed, t.engine))))

Calls(W, E, P(_)) ==
  /\ LifecycleCalls(W, E, P)
  /\ SetterCalls(W, E, P)
  /\ GetterCalls(W, E, P)
  /\ ServiceCalls(W, E, LAMBDA s : P(s.call))
  /\ ResponseCalls(W, E, P)

(***************************************************************************)
(* Properties of the parameter marshaller.                                 *)
(***************************************************************************)
\* values the properties try beyond those the actions store
RadiusValues == {NaN, Dbl(-1), Dbl(0), Dbl(5)}
BearingValues == {<<-1, 10>>, <<90, -1>>, <<90, 10>>, <<65626, 10>>}
CoordinateCount == Len(params.coordinates)
ValidIndices == 0..(CoordinateCount - 1)
InvalidIndices == CoordinateCount..(CoordinateCount + 1)

\* C6: after any sequence of add_coordinate, add_coordinate_with and
\* positional set_* calls, each of radiuses, bearings, approaches and hints
\* is at most as long as the coordinate vector.
C6_VectorsWithinCoordinates ==
  /\ Len(params.radiuses) <= Len(params.coordinates)
  /\ Len(params.bearings) <= Len(params.coordinates)
  /\ Len(params.approaches) <= Len(params.coordinates)
  /\ Len(params.hints) <= Len(params.coordinates)

\* add_coordinate, add_coordinate_with, then set_radius at index 1
C6_Witness ==
  /\ last.op = "osrmc_params_set_radius" /\ ~last.failed
  /\ Len(params.coordinates) = 2
  /\ Len(params.radiuses) = 2
  /\ Len(params.bearings) = 1

\* a setter call at an index beyond the coordinates leaves `vector` of the
\* parameters as it was and reports InvalidCoordinateIndex
Rejected(r, vector, error) ==
  /\ r.failed
  /\ r.params[vector] = params[vector]
  /\ error # NoSlot => osrmc_error_code(r.error) = "InvalidCoordinateIndex"

\* C8: set_radius, set_bearing, set_approach and set_hint called with an
\* index greater than or equal to the coordinate count fail with code
\* "InvalidCoordinateIndex" and leave the target vector unchanged.
C8_IndexBeyondCoordinatesRejected ==
  \A i \in InvalidIndices, error \in ErrorArgs :
    /\ \A radius \in RadiusValues :
         Rejected(osrmc_params_set_radius(LiveHandle, params, i, radius, error), "radiuses", error)
    /\ \A b \in BearingValues :
         Rejected(osrmc_params_set_bearing(LiveHandle, params, i, b[1], b[2], error), "bearings", error)
    /\ \A approach \in ApproachInputs :
         Rejected(osrmc_params_set_approach(LiveHandle, params, i, approach, error), "approaches", error)
    /\ \A hint \in HintInputs :
         Rejected(osrmc_params_set_hint(LiveHandle, params, i, hint, error), "hints", error)

\* two coordinates, no bearing yet, set_bearing at index 2 has just failed
C8_Witness ==
  /\ last.op = "osrmc_params_set_bearing" /\ last.failed
  /\ osrmc_error_code(err) = "InvalidCoordinateIndex"
  /\ Len(params.coordinates) = 2
  /\ params.bearings = <<>>

\* after a setter call at index i: the vector is as long as the coordinates,
\* old positions other than i are kept, new positions other than i are unset
Extended(old, new, i) ==
  /\ Len(new) = CoordinateCount
  /\ \A j \in 1..Len(new) :
       j # i + 1 => new[j] = IF j <= Len(old) THEN old[j] ELSE nullopt

\* C9: after a positional setter called with an index below the coordinate
\* count, the target vector is as long as the coordinate vector, every
\* position the extension added other than the index is unset, and every
\* earlier position other than the index keeps its value.
C9_SetterExtendsWithUnset ==
  \A i \in ValidIndices :
    /\ \A radius \in RadiusValues :
         Extended(params.radiuses,
                  osrmc_params_set_radius(LiveHandle, params, i, radius, EmptySlot).params.radiuses, i)
    /\ \A b \in BearingValues :
         Extended(params.bearings,
                  osrmc_params_set_bearing(LiveHandle, params, i, b[1], b[2], EmptySlot).params.bearings, i)
    /\ \A approach \in ApproachInputs :
         Extended(params.approaches,
                  osrmc_params_set_approach(LiveHandle, params, i, approach, EmptySlot).params.approaches, i)
    /\ \A hint \in HintInputs :
         Extended(params.hints,
                  osrmc_params_set_hint(LiveHandle, params, i, hint, EmptySlot).params.hints, i)

\* set_hint at index 1 of two coordinates has extended an empty hint vector
C9_Witness ==
  /\ last.op = "osrmc_params_set_hint" /\ ~last.failed
  /\ Len(params.coordinates) = 2
  /\ Len(params.hints) = 2
  /\ ~IsSet(params.hints[1])
  /\ IsSet(params.hints[2])

\* what each getter reports for a valid index: <<>> when unset, else <<v>>
RadiusAt(p, i) ==
  LET g == osrmc_params_get_radius(LiveHandle, p, i, TRUE, EmptySlot)
  IN IF g.out_is_set = <<1>> THEN Some(g.out_value[1]) ELSE nullopt
BearingAt(p, i) ==
  LET g == osrmc_params_get_bearing(LiveHandle, p, i, TRUE, EmptySlot)
  IN IF g.out_is_set = <<1>> THEN Some(g.out_value[1]) ELSE nullopt
ApproachAt(p, i) ==
  LET g == osrmc_params_get_approach(LiveHandle, p, i, TRUE, EmptySlot)
  IN IF g.out_is_set = <<1>> THEN Some(g.out_value[1]) ELSE nullopt
HintAt(p, i) ==
  LET g == osrmc_params_get_hint(LiveHandle, p, i, TRUE, EmptySlot)
  IN IF g.out_value # <<"NULL">> THEN Some(g.out_value[1]) ELSE nullopt

\* C7: for every vector and every index below its length, a set element is
\* the value the last write targeting that coordinate index asked for (a
\* positional setter at the index, or the add_coordinate_with that appended
\* that coordinate), and an index no call has written is not set.
C7_SetElementIsLastWrite ==
  /\ \A i \in 0..(Len(params.radiuses) - 1) :
       IsSet(RadiusAt(params, i)) => written.radiuses[i + 1] = <<RadiusAt(params, i)>>
  /\ \A i \in 0..(Len(params.bearings) - 1) :
       IsSet(BearingAt(params, i)) => written.bearings[i + 1] = <<BearingAt(params, i)>>
  /\ \A i \in 0..(Len(params.approaches) - 1) :
       IsSet(ApproachAt(params, i)) => written.approaches[i + 1] = <<ApproachAt(params, i)>>
  /\ \A i \in 0..(Len(params.hints) - 1) :
       IsSet(HintAt(params, i)) => written.hints[i + 1] = <<HintAt(params, i)>>

\* C10: with a valid index, a sentinel (radius < 0; value < 0 or range < 0;
\* a null hint) makes the getter report the index unset, and any other
\* value a successful setter takes is reported back as given.
C10_SentinelUnsetsValueSets ==
  \A i \in ValidIndices :
    /\ \A radius \in RadiusValues \ {NaN} :
         LET r == osrmc_params_set_radius(LiveHandle, params, i, radius, EmptySlot)
         IN ~r.failed => RadiusAt(r.params, i) = AskedRadius(radius)
    /\ \A b \in BearingValues :
         LET r == osrmc_params_set_bearing(LiveHandle, params, i, b[1], b[2], EmptySlot)
         IN ~r.failed => BearingAt(r.params, i) = AskedBearing(b[1], b[2])
    /\ \A hint \in HintInputs :
         LET r == osrmc_params_set_hint(LiveHandle, params, i, hint, EmptySlot)
         IN ~r.failed => HintAt(r.params, i) = AskedHint(hint)

(***************************************************************************)
(* Properties of the error protocol and the dispatchers.                   *)
(***************************************************************************)
\* a call that did not fail left the error argument as passed
SlotUntouched(c) == c.slot /\ ~c.out.failed => c.out.error = c.error
\* C1: a call of an entry point with an error parameter that completes
\* without a failure leaves the caller's error argument, and the slot
\* behind it, exactly as passed: only failing calls write the slot.
C1_SuccessLeavesSlotUntouched == Calls(World, {EmptySlot, StaleSlot}, SlotUntouched)

\* a route dispatch succeeded over a slot that held an earlier record
C1_Witness ==
  /\ last.op = "osrmc_route" /\ ~last.failed
  /\ response # <<>>
  /\ err = StaleSlot

\* a dispatcher call returned a handle exactly when the engine said Ok
ExactlyOnOk(s) ==
  LET ok == ~s.call.null /\ ~s.outcome.throws /\ s.outcome.status = "Ok"
      held == IF s.call.op = "osrmc_tile" THEN s.call.out.world.tile
              ELSE s.call.out.world.response
  IN IF ok
     THEN s.returned /\ held # <<>> /\ s.call.out.error = s.call.error
     ELSE /\ ~s.returned
          /\ held = <<>>
          /\ s.call.error # NoSlot => HasRecord(s.call.out.error)
\* C2: each of the six dispatchers, for every engine outcome, returns a
\* non-null handle exactly when the engine returned Ok, leaving the error
\* argument as passed; otherwise it returns null, a supplied slot holds a
\* record, and the caller is left without a response holder.
C2_ResponseExactlyOnOk ==
  ServiceCalls([World EXCEPT !.response = <<>>, !.tile = <<>>], ErrorArgs, ExactlyOnOk)

\* the engine refused a tile: no handle, and the empty slot now has a record
C2_Witness ==
  /\ last.op = "osrmc_tile" /\ last.failed /\ ~last.null
  /\ tile = <<>>
  /\ osrmc_error_code(err) = "TileError"

\* a call during which engine code threw failed with an Exception record
ExceptionBecomesRecord(c) ==
  c.thrown # <<>> =>
    /\ c.out.failed
    /\ c.error # NoSlot =>
         /\ osrmc_error_code(c.out.error) = "Exception"
         /\ osrmc_error_message(c.out.error) = c.thrown[1]
\* C3: when engine code throws during a call (constructing the engine, a
\* dispatch, a setter that decodes a hint), the call returns its failure
\* sentinel and a supplied slot holds a record with code "Exception" and
\* the exception's text.
C3_EngineExceptionBecomesRecord == Calls(World, ErrorArgs, ExceptionBecomesRecord)

\* the engine's constructor threw: no engine handle, an Exception record
C3_Witness ==
  /\ last.op = "osrmc_osrm_construct" /\ last.failed /\ ~last.null
  /\ osrm = <<>>
  /\ osrmc_error_code(err) = "Exception"
  /\ osrmc_error_message(err) = EngineWhat

\* what a null handle does to a call that can report it
NullHandleRejected(c) ==
  /\ c.out.failed
  /\ c.error # NoSlot => osrmc_error_code(c.out.error) = "InvalidArgument"
  /\ ~c.out.engine
  /\ c.out.world = World

NullHandleFails(c) == c.null => NullHandleRejected(c)
\* C4 as stated: every entry point that takes a handle, called with a null
\* handle, fails with an "InvalidArgument" record, does not invoke the
\* engine and changes no object.
C4_NullHandleAlwaysFails == Calls(World, ErrorArgs, NullHandleFails)

\* a null handle is rejected where it can be reported, skipped elsewhere
NullHandleGuarded(c) ==
  c.null =>
    IF c.slot
    THEN NullHandleRejected(c)
    ELSE ~c.out.failed /\ ~c.out.engine /\ c.out.world = World /\ c.out.error = c.error
\* C4, amended: an entry point that takes a handle and an error parameter,
\* called with a null handle, fails with an "InvalidArgument" record (in
\* the slot, when one is supplied), does not invoke the engine and changes
\* no object; one that takes a handle but no error parameter (a destructor,
\* clear_waypoints) does nothing on a null handle and reports no failure.
C4_NullHandleGuarded == Calls(World, ErrorArgs, NullHandleGuarded)

\* the engine constructor was given a null config over an empty slot
C4_Witness ==
  /\ last.op = "osrmc_osrm_construct" /\ last.null /\ last.failed
  /\ osrm = <<>>
  /\ osrmc_error_code(err) = "InvalidArgument"

\* a failing call left a record and changed no object
FailureHasNoEffect(c) ==
  c.out.failed => HasRecord(c.out.error) /\ c.out.world = World
\* C5: a failing call given a slot leaves a record in the slot and leaves
\* every object (config, engine, parameter vectors, response holders) as
\* it was before the call.
C5_FailureLeavesStateUnchanged == Calls(World, {EmptySlot}, FailureHasNoEffect)

(***************************************************************************)
(* Appends and growth of the per-coordinate vectors.                       *)
(***************************************************************************)
\* after an augmented append: radiuses and bearings are as long as the
\* coordinates and hold the call's radius and bearing at the index of the
\* coordinate the call appended
AppendedInStep(p, radius, bearing, range) ==
  LET n == Len(p.coordinates)
  IN /\ Len(p.radiuses) = n
     /\ Len(p.bearings) = n
     /\ p.radiuses[n] = Some(radius)
     /\ p.bearings[n] = Some(Bearing(bearing, range))

\* C11: after any sequence of bare and augmented appends, an
\* add_coordinate_with call leaves radiuses and bearings as long as the
\* coordinate vector, with the radius and bearing it was given stored at
\* the index of the coordinate it appended.
C11_AugmentedAppendStaysParallel ==
  \A radius \in AddRadiusInputs, b \in AddBearingInputs :
    LET r == osrmc_params_add_coordinate_with(LiveHandle, params, Coordinate[1], Coordinate[2],
                                              radius, b[1], b[2], EmptySlot)
    IN ~r.failed /\ AppendedInStep(r.params, radius, b[1], b[2])

PerCoordinateVectors == {"radiuses", "bearings", "approaches", "hints"}
Appends == {"osrmc_params_add_coordinate", "osrmc_params_add_coordinate_with"}

\* C12: in every step of every sequence of operations on a parameter
\* handle, the coordinate count and the length of each per-coordinate
\* vector do not decrease, a successful add_coordinate or
\* add_coordinate_with raises the coordinate count by exactly one, and
\* every other operation leaves the coordinates as they were.
C12_VectorsGrowOnly ==
  [][/\ \A v \in PerCoordinateVectors : Len(params'[v]) >= Len(params[v])
     /\ IF last'.op \in Appends /\ ~last'.failed
        THEN params'.coordinates = Append(params.coordinates, Coordinate)
        ELSE params'.coordinates = params.coordinates]_vars

\* set_radius at index 1 has grown empty radiuses to the two coordinates
C12_Witness ==
  /\ last.op = "osrmc_params_set_radius" /\ ~last.failed
  /\ Len(params.coordinates) = 2
  /\ Len(params.radiuses) = 2
  /\ ~IsSet(params.radiuses[1])
  /\ params.bearings = <<>>

(***************************************************************************)
(* Properties of the config handle.                                        *)
(***************************************************************************)
\* the storage config built from the base path the config was constructed
\* with (or from no path) and the list of disabled datasets
BuiltFrom(base_path, disabled) ==
  IF base_path = <<>> THEN StorageConfigOf(disabled) ELSE StorageConfig(base_path[1], disabled)

\* C13: after any sequence of disable_feature_dataset and
\* clear_disabled_feature_datasets calls, failing ones included, the stored
\* storage config is the one built from the base path given at construction
\* (from no path when none was given) and the current disabled list, and an
\* engine constructed next holds that storage config and that list.
C13_StorageConfigFollowsDisabledList ==
  config # <<>> =>
    LET c == config[1]
        built == BuiltFrom(given, c.disable_feature_dataset)
        r == osrmc_osrm_construct(LiveHandle, config, NoException, EmptySlot)
    IN /\ c.storage_config = built
       /\ r.ret # <<>>
       /\ r.ret[1].config.storage_config = built
       /\ r.ret[1].config.disable_feature_dataset = c.disable_feature_dataset

FeatureDatasets == {"ROUTE_STEPS", "ROUTE_GEOMETRY"}
\* the tags a dataset_name argument names: one or none
TagOf(dataset_name) ==
  IF dataset_name = <<>> THEN {}
  ELSE {t \in FeatureDatasets : osrmc_feature_dataset_name(t) = ToLower(dataset_name[1])}

\* C14: after any sequence of disable and clear calls the list of disabled
\* datasets has no duplicates and holds only the two recognized tags;
\* disabling a tag already present, in any letter case, succeeds and leaves
\* the config as it was; disabling an absent tag appends it after the
\* earlier ones; clear leaves the list empty; and the count and _at getters
\* report the list in that order.
C14_DisableIdempotentCaseInsensitive ==
  config # <<>> =>
    LET list == config[1].disable_feature_dataset
    IN /\ \A i, j \in 1..Len(list) : list[i] = list[j] => i = j
       /\ \A i \in 1..Len(list) : list[i] \in FeatureDatasets
       /\ \A dataset_name \in DatasetNames : \A t \in TagOf(dataset_name) :
            LET r == osrmc_config_disable_feature_dataset(LiveHandle, config, dataset_name, EmptySlot)
            IN /\ ~r.failed
               /\ IF Contains(list, t) THEN r.object = config
                  ELSE r.object[1].disable_feature_dataset = Append(list, t)
       /\ osrmc_config_clear_disabled_feature_datasets(LiveHandle, config, EmptySlot)
            .object[1].disable_feature_dataset = <<>>
       /\ osrmc_config_get_disabled_feature_dataset_count(LiveHandle, config, TRUE, EmptySlot)
            .out_value = <<Len(list)>>
       /\ \A i \in 1..Len(list) :
            osrmc_config_get_disabled_feature_dataset_at(LiveHandle, config, i - 1, TRUE, EmptySlot)
              .out_value = <<osrmc_feature_dataset_name(list[i])>>

\* "Route_Geometry" then "route_steps" or "ROUTE_STEPS" were disabled, the
\* last disable call succeeding: both tags, in the order of insertion
C14_Witness ==
  /\ last.op = "osrmc_config_disable_feature_dataset" /\ ~last.failed
  /\ config # <<>>
  /\ config[1].disable_feature_dataset = <<"ROUTE_GEOMETRY", "ROUTE_STEPS">>

(***************************************************************************)
(* Properties of the enumerated options.                                   *)
(***************************************************************************)
\* the closed sets: the enumerators each setter's argument type declares
SnappingTypes == {SNAPPING_DEFAULT, SNAPPING_ANY}
ApproachTypes == {APPROACH_CURB, APPROACH_UNRESTRICTED, APPROACH_OPPOSITE}
AnnotationsTypes == 0..63
GapsTypes == {0, 1}
SourceTypes == {0, 1}
DestinationTypes == {0, 1}

\* the call failed, left a record in the empty slot, and changed nothing
RefusedUnchanged(r) == r.failed /\ HasRecord(r.error) /\ r.params = params

\* C15: a setter of a closed-set option (snapping, approach, route-family
\* annotation mask, match gaps, trip source, trip destination), given a
\* value outside the set, fails with an error record and leaves the stored
\* parameter as it was.
C15_OutOfSetValueRefused ==
  /\ \A snapping \in SnappingInputs \ SnappingTypes :
       RefusedUnchanged(osrmc_params_set_snapping(LiveHandle, params, snapping, EmptySlot))
  /\ \A i \in ValidIndices, approach \in ApproachInputs \ ApproachTypes :
       RefusedUnchanged(osrmc_params_set_approach(LiveHandle, params, i, approach, EmptySlot))
  /\ \A annotations \in AnnotationsInputs \ AnnotationsTypes :
       /\ IsRoute(params) =>
            RefusedUnchanged(osrmc_route_params_set_annotations(LiveHandle, params, annotations, EmptySlot))
       /\ IsMatch(params) =>
            RefusedUnchanged(osrmc_match_params_set_annotations(LiveHandle, params, annotations, EmptySlot))
       /\ IsTrip(params) =>
            RefusedUnchanged(osrmc_trip_params_set_annotations(LiveHandle, params, annotations, EmptySlot))
  /\ IsMatch(params) =>
       \A gaps \in GapsInputs \ GapsTypes :
         RefusedUnchanged(osrmc_match_params_set_gaps(LiveHandle, params, gaps, EmptySlot))
  /\ IsTrip(params) =>
       /\ \A source \in SourceInputs \ SourceTypes :
            RefusedUnchanged(osrmc_trip_params_set_source(LiveHandle, params, source, EmptySlot))
       /\ \A destination \in DestinationInputs \ DestinationTypes :
            RefusedUnchanged(osrmc_trip_params_set_destination(LiveHandle, params, destination,
                                                               EmptySlot))

\* C16: on a route, match or trip parameter handle, after any sequence of
\* operations, the annotations boolean is true exactly when the stored
\* annotation mask is not zero.
C16_AnnotationsFlagFollowsMask ==
  params.annotations <=> (params.annotations_type # 0)

\* a match handle whose mask was last set to duration | distance
C16_Witness ==
  /\ last.op = "osrmc_match_params_set_annotations" /\ ~last.failed
  /\ IsMatch(params)
  /\ params.annotations_type = 5
  /\ params.annotations

(***************************************************************************)
(* Properties of the translation of a non-Ok engine result.                *)
(***************************************************************************)
\* the engine returned a status other than Ok
Refused(s) == ~s.call.null /\ ~s.outcome.throws /\ s.outcome.status = "Error"
HoldsDocument(s) == s.outcome.result.alt = "Object"
IsText(v) == v.t = "String"
\* the slots a record can be read from
Slots == {EmptySlot, StaleSlot}
\* every dispatcher call with a slot, nothing held by the response handles
Dispatches(P(_)) ==
  ServiceCalls([World EXCEPT !.response = <<>>, !.tile = <<>>], Slots, P)

DocumentTranslated(s) ==
  LET json == s.outcome.result.json
  IN Refused(s) /\ HoldsDocument(s) /\ IsText(json.code) /\ IsText(json.message) =>
       /\ ~s.returned
       /\ osrmc_error_code(s.call.out.error) =
            IF json.code.value = "" THEN "Unknown" ELSE json.code.value
       /\ osrmc_error_message(s.call.out.error) = json.message.value
\* C17: when a dispatcher gets a status other than Ok and the result holds
\* a document whose code and message are text, the call returns null and
\* the record's code is the document's code, or "Unknown" when that is the
\* empty string, and the record's message is the document's message.
C17_ErrorDocumentTranslated == Dispatches(DocumentTranslated)

\* a route dispatch was refused with the engine's NoRoute document
C17_Witness ==
  /\ last.op = "osrmc_route" /\ last.failed /\ ~last.null
  /\ response = <<>>
  /\ osrmc_error_code(err) = "NoRoute"
  /\ osrmc_error_message(err) = "Impossible route"

\* error documents with a field missing or not text, beyond those the
\* actions draw
MalformedDocuments ==
  { ResultJson(JMissing, JString("no code field")),
    ResultJson(JNumber, JString("code is a number")),
    ResultJson(JString("NoRoute"), JMissing),
    ResultJson(JString("NoRoute"), JNumber) }
ErrorNames ==
  { <<"osrmc_nearest", "NearestError">>, <<"osrmc_route", "RouteError">>,
    <<"osrmc_table", "TableError">>, <<"osrmc_match", "MatchError">>,
    <<"osrmc_trip", "TripError">> }

\* the call returned null and left a record with code "Exception"
ExceptionRecord(r) == r.ret = <<>> /\ osrmc_error_code(r.error) = "Exception"
\* C18: when a dispatcher, called on an engine, gets a status other than
\* Ok and the error document lacks the code or the message field, or
\* either is not text, the call returns null and the record has code
\* "Exception", for each of the six services.
C18_MalformedDocumentIsException ==
  osrm # <<>> =>
    \A d \in MalformedDocuments, e \in Slots :
      /\ \A n \in ErrorNames :
           ExceptionRecord(osrmc_service_helper(LiveHandle, LiveHandle, Returns("Error", d), n[2], e))
      /\ ExceptionRecord(osrmc_tile(LiveHandle, LiveHandle, Returns("Error", d), e))

\* the code the claim names for each service, and the service's name
ServiceErrorCode(op) ==
  CASE op = "osrmc_nearest" -> "NearestError"
    [] op = "osrmc_route" -> "RouteError"
    [] op = "osrmc_table" -> "TableError"
    [] op = "osrmc_match" -> "MatchError"
    [] op = "osrmc_trip" -> "TripError"
    [] op = "osrmc_tile" -> "TileError"
ServiceNames(op) ==
  CASE op = "osrmc_nearest" -> {"nearest", "Nearest"}
    [] op = "osrmc_route" -> {"route", "Route"}
    [] op = "osrmc_table" -> {"table", "Table"}
    [] op = "osrmc_match" -> {"match", "Match"}
    [] op = "osrmc_trip" -> {"trip", "Trip"}
    [] op = "osrmc_tile" -> {"tile", "Tile"}

FallbackNamesService(s) ==
  Refused(s) /\ ~HoldsDocument(s) =>
    /\ osrmc_error_code(s.call.out.error) = ServiceErrorCode(s.call.op)
    /\ \E name \in ServiceNames(s.call.op) :
         osrmc_error_message(s.call.out.error) = name \o " request failed"
\* C19 as stated: when a dispatcher gets a status other than Ok and the
\* result holds no document, the record has the service's code and the
\* message "<service> request failed".
C19_FallbackMessageNamesService == Dispatches(FallbackNamesService)

FallbackRecord(s) ==
  Refused(s) /\ ~HoldsDocument(s) =>
    /\ ~s.returned
    /\ osrmc_error_code(s.call.out.error) = ServiceErrorCode(s.call.op)
    /\ osrmc_error_message(s.call.out.error) =
         IF s.call.op = "osrmc_tile" THEN "Failed to generate tile" ELSE "Request failed"
\* C19, amended: when a dispatcher gets a status other than Ok and the
\* result holds no document, the call returns null and the record has the
\* service's code ("NearestError", "RouteError", "TableError", "MatchError",
\* "TripError", "TileError") and the message "Request failed", or, for the
\* tile service, "Failed to generate tile".
C19_FallbackRecord == Dispatches(FallbackRecord)

\* a table dispatch was refused with the result left as initialised
C19_Witness ==
  /\ last.op = "osrmc_table" /\ last.failed /\ ~last.null
  /\ response = <<>>
  /\ osrmc_error_code(err) = "TableError"
  /\ osrmc_error_message(err) = "Request failed"

(***************************************************************************)
(* Properties of the FlatBuffer transfer.                                  *)
(***************************************************************************)
\* C20: transfer_flatbuffer on a holder whose result is not the builder
\* alternative fails with code "InvalidFormat", writes data = null,
\* size = 0 and deleter = null, and leaves the holder as it was.
C20_NonBuilderTransferRefused ==
  response # <<>> /\ response[1].result.alt # "FlatBufferBuilder" =>
    \A malloc_fails \in BOOLEAN, error \in ErrorArgs :
      LET t == osrmc_response_transfer_flatbuffer(LiveHandle, response, OutputPointers, malloc_fails, error)
      IN /\ t.failed
         /\ error # NoSlot => osrmc_error_code(t.error) = "InvalidFormat"
         /\ t.data = <<"NULL">>
         /\ t.size = <<0>>
         /\ t.deleter = <<"NULL">>
         /\ t.response = response

\* a second transfer on a holder an earlier transfer left with a document
C20_Witness ==
  /\ last.op = "osrmc_route_response_transfer_flatbuffer" /\ last.failed /\ ~last.null
  /\ osrmc_error_code(err) = "InvalidFormat"
  /\ response # <<>>
  /\ response[1].result.alt = "Object"

(***************************************************************************)
(* Properties of the buffer a transfer hands out.                          *)
(***************************************************************************)
\* the finished data of a builder: from its offset to the end of its buffer
DataLength(builder) == builder.size - builder.offset

\* no block was freed twice; a live block has one owner, the holder's
\* builder or the caller's data pointer; the data pointer the caller holds
\* with a deleter is a live block
HeapSound(object, b) ==
  /\ \A k \in Blocks : b.heap[k] # "freed twice"
  /\ b.heap["raw buffer"] = "live" =>
       ("raw buffer" \in OwnedBy(object)) # (b.data = <<"raw buffer">>)
  /\ b.heap["copy"] = "live" => b.data = <<"copy">>
  /\ b.deleter # <<>> =>
       /\ b.deleter = <<"osrmc_free_deleter">>
       /\ b.data[1] \in Blocks
       /\ b.heap[b.data[1]] = "live"

\* a transfer that reported no failure gave the caller one live block
HandedOut(t, builder, heap) ==
  ~t.failed =>
    /\ t.data # <<"NULL">> /\ t.data[1] \in Blocks
    /\ Free(Malloc(heap, t.allocated), t.freed)[t.data[1]] = "live"
    /\ t.deleter = <<"osrmc_free_deleter">>
    /\ t.size = <<DataLength(builder)>>
    /\ IF builder.offset = 0
       THEN t.data = <<"raw buffer">> /\ t.allocated = {} /\ t.freed = {}
       ELSE t.data = <<"copy">> /\ t.allocated = {"copy"} /\ t.freed = {"raw buffer"}

\* C21: a successful transfer_flatbuffer hands the caller one live buffer
\* with a non-null data pointer, a non-null deleter and the size of the
\* finished data (the whole buffer at offset 0, the buffer size minus the
\* offset otherwise, where the raw buffer is freed once and the caller gets
\* a copy); over transfer, destruct and deleter in any order no block is
\* freed twice, none is left live without an owner, and the caller's buffer
\* is released by the deleter only.
C21_TransferHandsOutOneLiveBuffer ==
  /\ HeapSound(response, buffers)
  /\ response # <<>> /\ response[1].result.alt = "FlatBufferBuilder" =>
       \A malloc_fails \in BOOLEAN, error \in ErrorArgs :
         HandedOut(osrmc_response_transfer_flatbuffer(LiveHandle, response, OutputPointers,
                                                      malloc_fails, error),
                   response[1].result.fb, buffers.heap)

(***************************************************************************)
(* Properties of the engine handle.                                        *)
(***************************************************************************)
Dispatchers ==
  {"osrmc_nearest", "osrmc_route", "osrmc_table", "osrmc_match", "osrmc_trip", "osrmc_tile"}
EngineLifecycle == {"osrmc_osrm_construct", "osrmc_osrm_destruct"}

\* C22: the engine holds the config as it was at osrmc_osrm_construct: a
\* step that is not the construction or destruction of the engine (a change
\* or the destruction of the config, a dispatch, any other call) leaves the
\* engine as it was, a dispatch leaves the parameters and the config as
\* they were, and the engine stays in place for the dispatches after it.
C22_EngineKeepsSnapshot ==
  [][/\ last'.op \notin EngineLifecycle => osrm' = osrm
     /\ last'.op \in Dispatchers => params' = params /\ config' = config]_vars

\* a route dispatch succeeded on an engine constructed before the caller
\* disabled a dataset in the config: the engine's config has none disabled
C22_Witness ==
  /\ last.op = "osrmc_route" /\ ~last.failed
  /\ response # <<>>
  /\ config # <<>>
  /\ config[1].disable_feature_dataset = <<"ROUTE_STEPS">>
  /\ osrm # <<>>
  /\ osrm[1].config.disable_feature_dataset = <<>>
  /\ Len(params.coordinates) = 2

(***************************************************************************)
(* Properties of concurrent dispatch.                                      *)
(***************************************************************************)
\* C23: with several threads dispatching on one engine, each with its own
\* parameter handle and error slot, in every interleaving a call that has
\* returned has the response handle and the error record the dispatcher
\* gives for its own request, whatever the other threads' calls are doing.
C23_ConcurrentCallsKeepTheirResults ==
  \A t \in Threads :
    threads[t].pc = "done" =>
      LET own == Dispatch(threads[t].op, threads[t].outcome, threads[t].error)
      IN /\ threads[t].ret = own.ret
         /\ threads[t].out_error = own.error

\* thread 1 has its route response while thread 2, refused by the engine
\* with a document, has not yet translated it; thread 1's slot is as passed
C23_Witness ==
  /\ threads[1].pc = "done" /\ threads[1].op = "osrmc_route"
  /\ threads[1].ret # <<>> /\ threads[1].out_error = StaleSlot
  /\ threads[2].pc = "translate" /\ threads[2].op = "osrmc_tile"
  /\ threads[2].status = "Error" /\ threads[2].result.alt = "Object"

(***************************************************************************)
(* Properties of the destructors.                                          *)
(***************************************************************************)
\* C24: the destructor of every handle type (error, config, engine, the
\* parameter types, the response types), called with a null handle, leaves
\* every live object as it is and releases nothing.
C24_DestructNullIsNoOp ==
  /\ osrmc_config_destruct(NullHandle, config) = config
  /\ osrmc_osrm_destruct(NullHandle, osrm) = osrm
  /\ osrmc_route_response_destruct(NullHandle, response) = response
  /\ Released(NullHandle, response) = {}
  /\ osrmc_tile_response_destruct(NullHandle, tile) = tile
  /\ osrmc_params_destruct(NullHandle, <<params>>) = <<params>>
  /\ err # NoSlot => osrmc_error_destruct(NullHandle, err[1]) = err[1]

\* osrmc_config_destruct was called with null while the caller held a
\* config, an engine and a response whose builder owns a buffer
C24_Witness ==
  /\ last.op = "osrmc_config_destruct" /\ last.null
  /\ config # <<>>
  /\ osrm # <<>>
  /\ OwnedBy(response) # {}

(***************************************************************************)
(* Properties of the waypoint list.                                        *)
(***************************************************************************)
\* the list as the two getters report it
WaypointsRead(p) ==
  LET n == osrmc_route_params_get_waypoint_count(LiveHandle, p, TRUE, EmptySlot).out_value[1]
  IN [k \in 1..n |-> osrmc_route_params_get_waypoint(LiveHandle, p, k - 1, TRUE, EmptySlot).out_value[1]]

\* C25: add_waypoint(i) on a non-null handle never fails and appends i to
\* the end of the waypoint list for any i, also one at or beyond the
\* coordinate count; clear_waypoints leaves the list empty; the two getters
\* report the list as stored, so what is read back is the sequence of the
\* indices added since the last clear, in order.
C25_WaypointsAppendInOrder ==
  /\ WaypointsRead(params) = params.waypoints
  /\ \A index \in Indices, error \in ErrorArgs :
       LET r == osrmc_route_params_add_waypoint(LiveHandle, params, index, error)
       IN /\ ~r.failed
          /\ r.error = error
          /\ WaypointsRead(r.params) = Append(WaypointsRead(params), index)
          /\ r.params = [params EXCEPT !.waypoints = r.params.waypoints]
  /\ WaypointsRead(osrmc_route_params_clear_waypoints(LiveHandle, params)) = <<>>
  /\ osrmc_route_params_get_waypoint(LiveHandle, params, Len(params.waypoints), TRUE, EmptySlot).failed

\* waypoints 2 and 0 were added, in that order, to a handle that has no
\* coordinate
C25_Witness ==
  /\ last.op = "osrmc_route_params_add_waypoint" /\ ~last.failed
  /\ params.coordinates = <<>>
  /\ params.waypoints = <<2, 0>>

(***************************************************************************)
(* Properties of the table parameters.                                     *)
(***************************************************************************)
\* a positive double
DblGT0(d) == ~d.nan /\ d.x > 0
\* the call failed with InvalidArgument and left the parameters as they were
RefusedInvalidArgument(r) ==
  r.failed /\ osrmc_error_code(r.error) = "InvalidArgument" /\ r.params = params

\* C26: set_fallback_speed and set_scale_factor fail with "InvalidArgument"
\* on a value that is zero or negative and leave the stored value as it
\* was; after any sequence of these calls the stored fallback speed and
\* the stored scale factor are each the construction default or a positive
\* value.
C26_FallbackSpeedAndScaleStayPositive ==
  /\ \A v \in {d \in SpeedInputs : DblLE0(d)} :
       /\ RefusedInvalidArgument(osrmc_table_params_set_fallback_speed(LiveHandle, params, v, EmptySlot))
       /\ RefusedInvalidArgument(osrmc_table_params_set_scale_factor(LiveHandle, params, v, EmptySlot))
  /\ \A v \in {d \in SpeedInputs : DblGT0(d)} :
       /\ osrmc_table_params_set_fallback_speed(LiveHandle, params, v, EmptySlot).params.fallback_speed = v
       /\ osrmc_table_params_set_scale_factor(LiveHandle, params, v, EmptySlot).params.scale_factor = v
  /\ params.fallback_speed = DefaultFallbackSpeed \/ DblGT0(params.fallback_speed)
  /\ params.scale_factor = DefaultScaleFactor \/ DblGT0(params.scale_factor)

(***************************************************************************)
(* Properties of a response after its transfer.                            *)
(***************************************************************************)
EmptyDocument == ResultJson(JMissing, JMissing)
\* a transfer that is refused as not being in FlatBuffer format, with the
\* holder and the heap left as they were
RefusedInvalidFormat(t, object, error) ==
  /\ t.failed
  /\ error # NoSlot => osrmc_error_code(t.error) = "InvalidFormat"
  /\ t.data = <<"NULL">> /\ t.size = <<0>> /\ t.deleter = <<"NULL">>
  /\ t.response = object
  /\ t.allocated = {} /\ t.freed = {}

\* C27: transfer_flatbuffer is one-shot per response handle: a successful
\* transfer leaves the holder with an empty document; a transfer on a
\* holder in that state fails with "InvalidFormat" and data = null,
\* size = 0, deleter = null, leaves the holder in that state (so every
\* later transfer fails the same way), allocates and frees nothing, so the
\* buffer handed out stays live with the caller, and the destructor of the
\* response afterwards frees nothing of the caller's.
C27_TransferIsOneShot ==
  /\ (/\ last.op = "osrmc_route_response_transfer_flatbuffer"
      /\ ~last.failed) =>
       /\ response # <<>>
       /\ response[1].result = EmptyDocument
  /\ response # <<>> /\ response[1].result = EmptyDocument =>
       /\ \A malloc_fails \in BOOLEAN, error \in ErrorArgs :
            RefusedInvalidFormat(osrmc_response_transfer_flatbuffer(LiveHandle, response,
                                   OutputPointers, malloc_fails, error), response, error)
       /\ Released(LiveHandle, response) = {}
       /\ osrmc_route_response_destruct(LiveHandle, response) = <<>>
       /\ buffers.data # <<>> /\ buffers.data[1] \in Blocks =>
            Free(buffers.heap, Released(LiveHandle, response))[buffers.data[1]] = "live"

\* a transfer was refused on a response whose buffer the caller still holds
C27_Witness ==
  /\ last.op = "osrmc_route_response_transfer_flatbuffer" /\ last.failed /\ ~last.null
  /\ osrmc_error_code(err) = "InvalidFormat"
  /\ response # <<>> /\ response[1].result = EmptyDocument
  /\ buffers.deleter = <<"osrmc_free_deleter">>
  /\ buffers.data # <<>> /\ buffers.data[1] \in Blocks
  /\ buffers.heap[buffers.data[1]] = "live"

\* what a failed transfer leaves in each output
FailureValue == [data |-> "NULL", size |-> 0, deleter |-> "NULL"]

\* C28: whenever transfer_flatbuffer fails (null response, one of the output
\* pointers null, a result that is not the builder, a failed allocation),
\* every output pointer the caller passed is set to its failure value:
\* *data = null, *size = 0, *deleter = null.
C28_FailedTransferNullsOutputs ==
  \A h \in HandlesOf(response), outs \in SUBSET OutputPointers, malloc_fails \in BOOLEAN,
     error \in ErrorArgs :
    LET t == osrmc_response_transfer_flatbuffer(h, response, outs, malloc_fails, error)
    IN t.failed => \A name \in outs : t[name] = <<FailureValue[name]>>

(***************************************************************************)
(* Properties of the augmented append next to the setters.                 *)
(***************************************************************************)
\* the parameters after add_coordinate, set_radius and set_bearing at the
\* index of the coordinate added
AddedThenSet(p, radius, value, range) ==
  LET a == osrmc_params_add_coordinate(LiveHandle, p, Coordinate[1], Coordinate[2], EmptySlot).params
      r == osrmc_params_set_radius(LiveHandle, a, Len(p.coordinates), radius, EmptySlot).params
  IN osrmc_params_set_bearing(LiveHandle, r, Len(p.coordinates), value, range, EmptySlot).params

\* w and s hold the same radius and the same bearing at position i
SameAt(w, s, i) ==
  /\ Len(w.radiuses) >= i /\ Len(s.radiuses) >= i /\ w.radiuses[i] = s.radiuses[i]
  /\ Len(w.bearings) >= i /\ Len(s.bearings) >= i /\ w.bearings[i] = s.bearings[i]

\* C29: add_coordinate_with translates no sentinel and pads nothing: it
\* appends the radius and the (bearing, range) pair, narrowed to short, as
\* set values at the ends of the radius and bearing vectors, negative or
\* not, and leaves the approach and hint vectors alone; the radius and
\* bearing of the new coordinate equal those after add_coordinate,
\* set_radius and set_bearing at the new index exactly when the two vectors
\* were as long as the coordinate vector and radius, bearing and range are
\* all non-negative.
C29_AugmentedAppendIsRaw ==
  \A radius \in RadiusValues, b \in BearingValues :
    LET n == Len(params.coordinates)
        w == osrmc_params_add_coordinate_with(LiveHandle, params, Coordinate[1], Coordinate[2],
                                              radius, b[1], b[2], EmptySlot).params
        s == AddedThenSet(params, radius, b[1], b[2])
        aligned == Len(params.radiuses) = n /\ Len(params.bearings) = n
        nonnegative == DblGE0(radius) /\ b[1] >= 0 /\ b[2] >= 0
    IN /\ w.coordinates = Append(params.coordinates, Coordinate)
       /\ w.radiuses = Append(params.radiuses, Some(radius))
       /\ w.bearings = Append(params.bearings, Some(Bearing(b[1], b[2])))
       /\ w.approaches = params.approaches
       /\ w.hints = params.hints
       /\ SameAt(w, s, n + 1) <=> (aligned /\ nonnegative)
       /\ aligned /\ nonnegative => w = s

\* add_coordinate_with appended a negative radius and a negative bearing as
\* set values to vectors shorter than the coordinates
C29_Witness ==
  /\ last.op = "osrmc_params_add_coordinate_with" /\ ~last.failed
  /\ Len(params.radiuses) < Len(params.coordinates)
  /\ params.radiuses[Len(params.radiuses)] = Some(Dbl(-1))
  /\ params.bearings[Len(params.bearings)] = Some(Bearing(-1, 10))

(***************************************************************************)
(* Properties of the alternatives flag and count.                          *)
(***************************************************************************)
\* the two setters of the handle the caller holds
SetNumberOfAlternatives(p, count) ==
  IF IsMatch(p) THEN osrmc_match_params_set_number_of_alternatives(LiveHandle, p, count, EmptySlot)
  ELSE IF IsTrip(p) THEN osrmc_trip_params_set_number_of_alternatives(LiveHandle, p, count, EmptySlot)
  ELSE osrmc_route_params_set_number_of_alternatives(LiveHandle, p, count, EmptySlot)
SetAlternatives(p, on) ==
  IF IsMatch(p) THEN osrmc_match_params_set_alternatives(LiveHandle, p, on, EmptySlot)
  ELSE IF IsTrip(p) THEN osrmc_trip_params_set_alternatives(LiveHandle, p, on, EmptySlot)
  ELSE osrmc_route_params_set_alternatives(LiveHandle, p, on, EmptySlot)
NumberOfAlternativesSetters ==
  {"osrmc_route_params_set_number_of_alternatives",
   "osrmc_match_params_set_number_of_alternatives",
   "osrmc_trip_params_set_number_of_alternatives"}
AlternativesSetters ==
  {"osrmc_route_params_set_alternatives", "osrmc_match_params_set_alternatives",
   "osrmc_trip_params_set_alternatives"}

\* C30: on a route, match or trip parameter handle,
\* set_number_of_alternatives(count) stores the count and sets the
\* alternatives flag to (count > 0) whatever an earlier set_alternatives
\* left, and changes nothing else; set_alternatives(on) sets the flag to
\* (on != 0) and changes nothing else, the stored count included; so right
\* after a successful set_number_of_alternatives the flag is (count > 0).
C30_CountSetsFlagFlagKeepsCount ==
  /\ \A count \in CountInputs :
       LET r == SetNumberOfAlternatives(params, count)
       IN /\ ~r.failed
          /\ r.params = [params EXCEPT !.number_of_alternatives = count,
                                       !.alternatives = (count > 0)]
  /\ \A on \in OnInputs :
       LET r == SetAlternatives(params, on)
       IN /\ ~r.failed
          /\ r.params = [params EXCEPT !.alternatives = (on # 0)]
          /\ r.params.number_of_alternatives = params.number_of_alternatives
  /\ last.op \in NumberOfAlternativesSetters /\ ~last.failed =>
       params.alternatives = (params.number_of_alternatives > 0)

\* a set_alternatives after a set_number_of_alternatives left the flag and
\* the count in disagreement
C30_Witness ==
  /\ last.op \in AlternativesSetters /\ ~last.failed
  /\ params.number_of_alternatives > 0
  /\ ~params.alternatives

====
